---- MODULE Spec2Model ----
(***************************************************************************)
(* Model of the resilient API-access core of raindrop-io-mcp:              *)
(* src/raindrop/rate_limiter.py (TokenBucket, CircuitBreaker,              *)
(* PriorityQueue, RateLimiter).                                            *)
(*                                                                         *)
(* Time is the value of time.time(), observed in whole ticks; one minute   *)
(* is TicksPerMinute ticks.  Token amounts are kept exactly, as integer    *)
(* multiples of 1/TokenUnit token, so the float arithmetic of the source   *)
(* is modelled as exact rational arithmetic.                               *)
(***************************************************************************)
EXTENDS Integers, Sequences, FiniteSets, TLC

\* ------------------------------------------------------------------ bounds
\* Clock resolution: ticks per 60 seconds.
TicksPerMinute == 2
\* The clock stops advancing here.
MaxTime == 6
\* Stand-alone TokenBucket: largest capacity, refill rate and request size.
MaxCapacity == 2
MaxRate == 3
MaxConsume == 2
\* Stand-alone CircuitBreaker: largest thresholds / timeout drawn at construction.
MaxThreshold == 2
MaxRecovery == 2
\* failure_count is not incremented past this in the model.
MaxFailures == 6

\* RateLimiter: requests_per_minute, the number of acquire() calls and of
\* drain tasks started in one run, and the longest acquire() timeout in ticks.
RequestsPerMinute == 2
MaxAcquires == 3
MaxStarts == 1
MaxTimeout == 1
\* The clock of the whole RateLimiter stops advancing here.
MaxClock == 3
\* A limiter that is stopped and restarted: drain tasks started in one run and
\* the longest acquire() timeout in ticks.
MaxRestarts == 2
MaxWait == 2
\* Stand-alone PriorityQueue: the number of put() calls in one run.
MaxPuts == 3
\* RaindropClient: the largest max_retries, base_delay and max_delay (seconds)
\* of its RetryConfig, and the number of _make_request calls in one run.
MaxRetries == 2
MaxBaseDelay == 2
MaxDelayCap == 3
MaxRequests == 3
\* The clock runs to ClientClock ticks in the runs of the RaindropClient.
ClientClock == 2
\* Tags of a create_bookmark call: how many, and how many characters follow
\* the optional long run of letters a tag starts with.
MaxTags == 2
MaxSuffix == 2
\* acquire() calls in the run of arrivals
MaxArrivals == 4

\* CircuitBreaker defaults, as RateLimiter constructs it.
FailureThreshold == 5
SuccessThreshold == 2
\* recovery_timeout = 60.0 seconds.
RecoveryTimeout == TicksPerMinute

\* Sub-units per token: tokens are stored as multiples of 1/TokenUnit.
TokenUnit == TicksPerMinute

Min(a, b) == IF a <= b THEN a ELSE b

VARIABLES
    now,              \* time.time(), in ticks
    token_bucket,     \* TokenBucket: capacity, tokens, refill_rate, last_refill
    circuit_breaker,  \* CircuitBreaker: thresholds, state, counters, last_failure_time
    last,             \* the most recent call: [op, arg, ret, at]
    base,             \* history: tokens and time just after the last successful consume
    avail_seen,       \* history: last tokens_available() result since then (-1: none)
    cb_hist,          \* history of the breaker: consecutive failures / successes
    cb_enabled,       \* RateLimiter: circuit_breaker is not None
    running,          \* RateLimiter._running
    drain,            \* the task of _process_queue: [pc, req]
    epoch,            \* number of drain tasks created by start()
    requests,         \* the acquire() calls made so far, in call order
    lanes,            \* PriorityQueue: the items of each asyncio.Queue
    getters,          \* per lane: asyncio.Queue._getters, the waiting getter tasks
    woken,            \* per lane: getter tasks whose future was set, not yet resumed
    got,              \* per lane: the item the drain's finished getter task holds (0: none)
    stats,            \* RateLimiter.stats
    ledger,           \* history: successful consume() calls, tokens credited, items
                      \* dropped, drain tasks that have ended
    client            \* RaindropClient: its configuration and the _make_request in progress

rlVars == <<cb_enabled, running, drain, epoch, requests, lanes, getters, woken, got,
            stats, ledger, client>>

vars == <<now, token_bucket, circuit_breaker, last, base, avail_seen, cb_hist,
          cb_enabled, running, drain, epoch, requests, lanes, getters, woken, got,
          stats, ledger, client>>

NoCall == [op |-> "none", arg |-> 0, ret |-> 0, at |-> 0]

\* ------------------------------------------------------------ TokenBucket
\* TokenBucket._refill with a refill that forgets the capacity cap.
RefillUncapped(b, t) ==
    [b EXCEPT !.tokens = b.tokens + (t - b.last_refill) * b.refill_rate,
              !.last_refill = t]

\* TokenBucket._refill with a refill that forgets to move last_refill.
RefillKeepsStamp(b, t) ==
    [b EXCEPT !.tokens = Min(b.capacity * TokenUnit,
                             b.tokens + (t - b.last_refill) * b.refill_rate)]

\* TokenBucket._refill at time t.
_refill(b, t) ==
    [b EXCEPT !.tokens = Min(b.capacity * TokenUnit,
                             b.tokens + (t - b.last_refill) * b.refill_rate),
              !.last_refill = t]

\* TokenBucket.consume that subtracts even when the tokens do not suffice.
ConsumeAlwaysSubtracts(b, n, t) ==
    LET r == _refill(b, t) IN
    [bucket |-> [r EXCEPT !.tokens = @ - n * TokenUnit],
     ret |-> r.tokens >= n * TokenUnit]

\* TokenBucket.consume that returns True whether or not the tokens sufficed.
ConsumeAlwaysTrue(b, n, t) ==
    LET r == _refill(b, t) IN
    IF r.tokens >= n * TokenUnit
        THEN [bucket |-> [r EXCEPT !.tokens = @ - n * TokenUnit], ret |-> TRUE]
        ELSE [bucket |-> r, ret |-> TRUE]

\* TokenBucket.consume that compares with > instead of >=.
ConsumeStrict(b, n, t) ==
    LET r == _refill(b, t) IN
    IF r.tokens > n * TokenUnit
        THEN [bucket |-> [r EXCEPT !.tokens = @ - n * TokenUnit], ret |-> TRUE]
        ELSE [bucket |-> r, ret |-> FALSE]

\* TokenBucket.consume(n) at time t: the bucket afterwards and the result.
consume(b, n, t) ==
    LET r == _refill(b, t) IN
    IF r.tokens >= n * TokenUnit
        THEN [bucket |-> [r EXCEPT !.tokens = @ - n * TokenUnit], ret |-> TRUE]
        ELSE [bucket |-> r, ret |-> FALSE]

\* TokenBucket.tokens_available(): int() of the refilled token count.
tokens_available(b, t) ==
    LET r == _refill(b, t) IN
    [bucket |-> r, ret |-> r.tokens \div TokenUnit]

\* TokenBucket.time_until_available(n): 0, or the exact quotient
\* (n - tokens) / refill_rate in ticks, as numerator and denominator.
time_until_available(b, n, t) ==
    LET r == _refill(b, t) IN
    IF r.tokens >= n * TokenUnit
        THEN [bucket |-> r, ret |-> [num |-> 0, den |-> 1]]
        ELSE [bucket |-> r,
              ret |-> [num |-> n * TokenUnit - r.tokens, den |-> r.refill_rate]]

\* --------------------------------------------------------- CircuitBreaker
NewBreaker(ft, rt, st) ==
    [failure_threshold |-> ft, recovery_timeout |-> rt, success_threshold |-> st,
     state |-> "CLOSED", failure_count |-> 0, success_count |-> 0,
     last_failure_time |-> 0]

\* can_execute that lets every call through while OPEN.
CanExecuteFailsOpen(cb, t) ==
    IF cb.state = "OPEN" /\ t - cb.last_failure_time >= cb.recovery_timeout
        THEN [cb |-> [cb EXCEPT !.state = "HALF_OPEN", !.success_count = 0], ret |-> TRUE]
        ELSE [cb |-> cb, ret |-> TRUE]

\* can_execute that compares the elapsed time with > instead of >=.
CanExecuteStrict(cb, t) ==
    CASE cb.state = "CLOSED" -> [cb |-> cb, ret |-> TRUE]
      [] cb.state = "OPEN" ->
            IF t - cb.last_failure_time > cb.recovery_timeout
                THEN [cb |-> [cb EXCEPT !.state = "HALF_OPEN", !.success_count = 0],
                      ret |-> TRUE]
                ELSE [cb |-> cb, ret |-> FALSE]
      [] OTHER -> [cb |-> cb, ret |-> TRUE]

\* can_execute that forgets to reset success_count on entering HALF_OPEN.
CanExecuteKeepsSuccessCount(cb, t) ==
    CASE cb.state = "CLOSED" -> [cb |-> cb, ret |-> TRUE]
      [] cb.state = "OPEN" ->
            IF t - cb.last_failure_time >= cb.recovery_timeout
                THEN [cb |-> [cb EXCEPT !.state = "HALF_OPEN"], ret |-> TRUE]
                ELSE [cb |-> cb, ret |-> FALSE]
      [] OTHER -> [cb |-> cb, ret |-> TRUE]

\* can_execute that clears failure_count when it enters HALF_OPEN.
CanExecuteForgetsFailures(cb, t) ==
    CASE cb.state = "CLOSED" -> [cb |-> cb, ret |-> TRUE]
      [] cb.state = "OPEN" ->
            IF t - cb.last_failure_time >= cb.recovery_timeout
                THEN [cb |-> [cb EXCEPT !.state = "HALF_OPEN", !.success_count = 0,
                                        !.failure_count = 0],
                      ret |-> TRUE]
                ELSE [cb |-> cb, ret |-> FALSE]
      [] OTHER -> [cb |-> cb, ret |-> TRUE]

\* CircuitBreaker.can_execute() at time t: the breaker afterwards and the result.
can_execute(cb, t) ==
    CASE cb.state = "CLOSED" -> [cb |-> cb, ret |-> TRUE]
      [] cb.state = "OPEN" ->
            IF t - cb.last_failure_time >= cb.recovery_timeout
                THEN [cb |-> [cb EXCEPT !.state = "HALF_OPEN", !.success_count = 0],
                      ret |-> TRUE]
                ELSE [cb |-> cb, ret |-> FALSE]
      [] cb.state = "HALF_OPEN" -> [cb |-> cb, ret |-> TRUE]
      [] OTHER -> [cb |-> cb, ret |-> FALSE]

\* record_success that forgets to reset failure_count in CLOSED.
RecordSuccessKeepsFailures(cb) ==
    CASE cb.state = "HALF_OPEN" ->
            IF cb.success_count + 1 >= cb.success_threshold
                THEN [cb EXCEPT !.success_count = @ + 1, !.state = "CLOSED",
                                !.failure_count = 0]
                ELSE [cb EXCEPT !.success_count = @ + 1]
      [] OTHER -> cb

\* record_success that closes the breaker without clearing failure_count.
RecordSuccessClosesUncleared(cb) ==
    CASE cb.state = "HALF_OPEN" ->
            IF cb.success_count + 1 >= cb.success_threshold
                THEN [cb EXCEPT !.success_count = @ + 1, !.state = "CLOSED"]
                ELSE [cb EXCEPT !.success_count = @ + 1]
      [] cb.state = "CLOSED" -> [cb EXCEPT !.failure_count = 0]
      [] OTHER -> cb

\* CircuitBreaker.record_success().
record_success(cb) ==
    CASE cb.state = "HALF_OPEN" ->
            IF cb.success_count + 1 >= cb.success_threshold
                THEN [cb EXCEPT !.success_count = @ + 1, !.state = "CLOSED",
                                !.failure_count = 0]
                ELSE [cb EXCEPT !.success_count = @ + 1]
      [] cb.state = "CLOSED" -> [cb EXCEPT !.failure_count = 0]
      [] OTHER -> cb

\* record_failure without the HALF_OPEN branch: only CLOSED can trip.
RecordFailureClosedOnly(cb, t) ==
    LET c == [cb EXCEPT !.failure_count = @ + 1, !.last_failure_time = t] IN
    IF c.state = "CLOSED" /\ c.failure_count >= c.failure_threshold
        THEN [c EXCEPT !.state = "OPEN"]
        ELSE c

\* CircuitBreaker.record_failure() at time t.
record_failure(cb, t) ==
    LET c == [cb EXCEPT !.failure_count = @ + 1, !.last_failure_time = t] IN
    CASE c.state = "CLOSED" ->
            IF c.failure_count >= c.failure_threshold
                THEN [c EXCEPT !.state = "OPEN"]
                ELSE c
      [] c.state = "HALF_OPEN" -> [c EXCEPT !.state = "OPEN"]
      [] OTHER -> c

\* ------------------------------------------------------------------ clock
\* time.time() moves on by one tick.
\* Before it does, the event loop runs what is already due: a waiting
\* acquire() whose future is resolved or whose timeout has expired, and a drain
\* task that is in the middle of a run.
TickUpTo(limit) ==
    /\ now < limit
    /\ drain.pc \notin {"top", "item"}
    /\ \A k \in 1..Len(requests) :
           requests[k].ret = "waiting" =>
               requests[k].future = "pending" /\ now < requests[k].deadline
    /\ now' = now + 1
    /\ UNCHANGED <<token_bucket, circuit_breaker, last, base, avail_seen, cb_hist>>
    /\ UNCHANGED rlVars

Tick == TickUpTo(MaxTime)


\* ------------------------------------------------------------ RateLimiter
Priorities == <<"high", "normal", "low">>
Priority == {"high", "normal", "low"}

NoStats == [requests_processed |-> 0, requests_rejected |-> 0,
            requests_queued |-> 0, circuit_breaker_trips |-> 0]
NoLedger == [consumed |-> 0, credited |-> 0, lost |-> {}, ended |-> 0]
\* No RaindropClient is part of the run.
NoClient == [pc |-> "absent"]

\* RateLimiter.__init__ apart from the bucket and the breaker.
InitLimiterIdle ==
    /\ running = FALSE
    /\ drain = [pc |-> "none", req |-> 0]
    /\ epoch = 0
    /\ requests = << >>
    /\ lanes = [p \in Priority |-> << >>]
    /\ getters = [p \in Priority |-> << >>]
    /\ woken = [p \in Priority |-> << >>]
    /\ got = [p \in Priority |-> 0]
    /\ stats = NoStats
    /\ ledger = NoLedger
    /\ client = NoClient

\* ----------------------------------------- the stand-alone TokenBucket
NoBreaker == NewBreaker(1, 1, 1)
NoHist == [fails |-> 0, succs |-> 0, reopened |-> -1]

InitTB ==
    /\ now = 0
    /\ \E c \in 1..MaxCapacity, r \in 1..MaxRate :
        \E k \in 0..(c * TokenUnit) :
            token_bucket = [capacity |-> c, tokens |-> k, refill_rate |-> r,
                            last_refill |-> 0]
    /\ circuit_breaker = NoBreaker
    /\ last = NoCall
    /\ base = [tokens |-> token_bucket.tokens, at |-> 0]
    /\ avail_seen = -1
    /\ cb_hist = NoHist
    /\ cb_enabled = FALSE
    /\ InitLimiterIdle

TBConsume ==
    \E n \in 1..MaxConsume :
        LET c == consume(token_bucket, n, now) IN
        /\ token_bucket' = c.bucket
        /\ last' = [op |-> "consume", arg |-> n, ret |-> c.ret, at |-> now]
        /\ base' = IF c.ret THEN [tokens |-> c.bucket.tokens, at |-> now] ELSE base
        /\ avail_seen' = IF c.ret THEN -1 ELSE avail_seen
        /\ UNCHANGED <<now, circuit_breaker, cb_hist>>
        /\ UNCHANGED rlVars

TBTokensAvailable ==
    LET a == tokens_available(token_bucket, now) IN
    /\ token_bucket' = a.bucket
    /\ last' = [op |-> "tokens_available", arg |-> 0, ret |-> a.ret, at |-> now]
    /\ avail_seen' = a.ret
    /\ UNCHANGED <<now, circuit_breaker, base, cb_hist>>
    /\ UNCHANGED rlVars

TBTimeUntilAvailable ==
    \E n \in 1..MaxConsume :
        LET w == time_until_available(token_bucket, n, now) IN
        /\ token_bucket' = w.bucket
        /\ last' = [op |-> "time_until_available", arg |-> n, ret |-> w.ret, at |-> now]
        /\ UNCHANGED <<now, circuit_breaker, base, avail_seen, cb_hist>>
        /\ UNCHANGED rlVars

NextTB == TBConsume \/ TBTokensAvailable \/ TBTimeUntilAvailable \/ Tick

SpecTB == InitTB /\ [][NextTB]_vars

\* ---------------------------------------------- claims on the TokenBucket
\* C2: with 0 <= tokens <= capacity at construction, every sequence of
\* consume(n), tokens_available(), time_until_available() and clock advances
\* keeps 0 <= tokens <= capacity.
TokensWithinCapacity ==
    /\ 0 <= token_bucket.tokens
    /\ token_bucket.tokens <= token_bucket.capacity * TokenUnit

\* A refill was cut by the cap after an earlier successful consume.
RefillWasCapped ==
    /\ last.op = "tokens_available"
    /\ base.at > 0
    /\ token_bucket.tokens = token_bucket.capacity * TokenUnit
    /\ base.tokens + (now - base.at) * token_bucket.refill_rate
           > token_bucket.capacity * TokenUnit

\* C3: consume(n) refills first, returns true exactly when the refilled count
\* is >= n, then subtracts exactly n; on false nothing is subtracted and
\* tokens_available() reads what it read before the call.
ConsumeContract ==
    [][TBConsume =>
        LET refilled == Min(token_bucket.capacity * TokenUnit,
                            token_bucket.tokens
                              + (now - token_bucket.last_refill) * token_bucket.refill_rate)
            n == last'.arg
        IN  /\ last'.op = "consume"
            /\ last'.ret = (refilled >= n * TokenUnit)
            /\ token_bucket'.tokens =
                   IF last'.ret THEN refilled - n * TokenUnit ELSE refilled
            /\ token_bucket'.last_refill = now
            /\ ~last'.ret =>
                   token_bucket'.tokens \div TokenUnit = refilled \div TokenUnit
    ]_vars

\* A consume failed after an earlier one had succeeded.
ConsumeFailedAfterSuccess ==
    /\ last.op = "consume"
    /\ last.ret = FALSE
    /\ base.at > 0
    /\ token_bucket.tokens > 0

\* C4: between two successful consumptions tokens_available() never decreases
\* as the clock advances, and after elapsed time t it is
\* floor(min(capacity, tokens + t * refill_rate)).
AvailableMonotoneAndExact ==
    [][TBTokensAvailable =>
        /\ last'.ret =
              Min(token_bucket.capacity * TokenUnit,
                  base.tokens + (now - base.at) * token_bucket.refill_rate)
                \div TokenUnit
        /\ avail_seen # -1 => last'.ret >= avail_seen
    ]_vars

\* tokens_available() has grown since the last successful consume and the
\* bucket holds a fraction of a token that the result floors away.
AvailableGrewWithFraction ==
    /\ last.op = "tokens_available"
    /\ last.at > base.at
    /\ base.at > 0
    /\ token_bucket.tokens % TokenUnit # 0
    /\ last.ret > base.tokens \div TokenUnit

\* -------------------------------------- the stand-alone CircuitBreaker
NoBucket == [capacity |-> 1, tokens |-> 0, refill_rate |-> 1, last_refill |-> 0]

InitCB ==
    /\ now = 0
    /\ token_bucket = NoBucket
    /\ \E ft \in 1..MaxThreshold, rt \in 1..MaxRecovery, st \in 1..MaxThreshold :
            circuit_breaker = NewBreaker(ft, rt, st)
    /\ last = NoCall
    /\ base = [tokens |-> 0, at |-> 0]
    /\ avail_seen = -1
    /\ cb_hist = NoHist
    /\ cb_enabled = TRUE
    /\ InitLimiterIdle

\* The history of the breaker after its state went from `old` to `new`:
\* succs restarts when HALF_OPEN is entered.
EnterHalfOpen(h, old, new) ==
    IF new = "HALF_OPEN" /\ old # "HALF_OPEN" THEN [h EXCEPT !.succs = 0] ELSE h

CBCanExecute ==
    LET c == can_execute(circuit_breaker, now) IN
    /\ circuit_breaker' = c.cb
    /\ last' = [op |-> "can_execute", arg |-> 0, ret |-> c.ret, at |-> now]
    /\ cb_hist' = EnterHalfOpen(cb_hist, circuit_breaker.state, c.cb.state)
    /\ UNCHANGED <<now, token_bucket, base, avail_seen>>
    /\ UNCHANGED rlVars

CBRecordSuccess ==
    /\ circuit_breaker' = record_success(circuit_breaker)
    /\ last' = [op |-> "record_success", arg |-> 0, ret |-> 0, at |-> now]
    /\ cb_hist' = [cb_hist EXCEPT
                      !.fails = 0,
                      !.succs = IF circuit_breaker.state = "HALF_OPEN"
                                    THEN @ + 1 ELSE @]
    /\ UNCHANGED <<now, token_bucket, base, avail_seen>>
    /\ UNCHANGED rlVars

CBRecordFailure ==
    /\ circuit_breaker.failure_count < MaxFailures
    /\ circuit_breaker' = record_failure(circuit_breaker, now)
    /\ last' = [op |-> "record_failure", arg |-> 0, ret |-> 0, at |-> now]
    /\ cb_hist' = [cb_hist EXCEPT
                      !.fails = @ + 1,
                      !.reopened = IF circuit_breaker.state = "HALF_OPEN"
                                       THEN now ELSE @]
    /\ UNCHANGED <<now, token_bucket, base, avail_seen>>
    /\ UNCHANGED rlVars

NextCB == CBCanExecute \/ CBRecordSuccess \/ CBRecordFailure \/ Tick

SpecCB == InitCB /\ [][NextCB]_vars

\* ------------------------------------------- claims on the CircuitBreaker
\* C5: a breaker that starts CLOSED with failure_count 0 becomes OPEN exactly
\* when failure_threshold failures were recorded with no success in between:
\* a success in CLOSED resets failure_count, fewer consecutive failures leave
\* it CLOSED, and the failure reaching the threshold sets OPEN and
\* last_failure_time = now.
ClosedTripsAtThreshold ==
    [][ /\ circuit_breaker.state = "CLOSED" =>
              /\ circuit_breaker.failure_count = cb_hist.fails
              /\ cb_hist.fails < circuit_breaker.failure_threshold
        /\ (CBRecordSuccess /\ circuit_breaker.state = "CLOSED") =>
              /\ circuit_breaker'.state = "CLOSED"
              /\ circuit_breaker'.failure_count = 0
        /\ (CBRecordFailure /\ circuit_breaker.state = "CLOSED") =>
              IF cb_hist.fails + 1 = circuit_breaker.failure_threshold
                  THEN /\ circuit_breaker'.state = "OPEN"
                       /\ circuit_breaker'.last_failure_time = now
                  ELSE circuit_breaker'.state = "CLOSED"
        /\ (circuit_breaker.state = "CLOSED" /\ circuit_breaker'.state # "CLOSED") =>
              /\ CBRecordFailure
              /\ circuit_breaker'.state = "OPEN"
              /\ cb_hist'.fails = circuit_breaker.failure_threshold
    ]_vars

\* The breaker tripped at the second failure in a row, after an earlier
\* failure had been wiped out by a success.
TrippedAfterReset ==
    /\ circuit_breaker.state = "OPEN"
    /\ circuit_breaker.failure_threshold = 2
    /\ cb_hist.fails = 2
    /\ circuit_breaker.failure_count = 2
    /\ cb_hist.reopened = -1
    /\ last.op = "record_failure"
    /\ circuit_breaker.last_failure_time = now
    /\ now >= 2

\* C6: while OPEN, can_execute() is false as long as
\* now - last_failure_time < recovery_timeout; the first call once the timeout
\* has elapsed moves to HALF_OPEN, resets success_count and returns true, and
\* only that call performs the OPEN -> HALF_OPEN transition.
OpenRecoversOnce ==
    [][ /\ (CBCanExecute /\ circuit_breaker.state = "OPEN") =>
              IF now - circuit_breaker.last_failure_time
                     < circuit_breaker.recovery_timeout
                  THEN /\ last'.ret = FALSE
                       /\ circuit_breaker' = circuit_breaker
                  ELSE /\ last'.ret = TRUE
                       /\ circuit_breaker'.state = "HALF_OPEN"
                       /\ circuit_breaker'.success_count = 0
        /\ (circuit_breaker.state = "OPEN" /\ circuit_breaker'.state # "OPEN") =>
              /\ CBCanExecute
              /\ circuit_breaker'.state = "HALF_OPEN"
              /\ now - circuit_breaker.last_failure_time
                     >= circuit_breaker.recovery_timeout
        /\ (CBCanExecute /\ circuit_breaker.state = "HALF_OPEN") =>
              /\ last'.ret = TRUE
              /\ circuit_breaker' = circuit_breaker
    ]_vars

\* can_execute() has just moved an OPEN breaker to HALF_OPEN exactly at the
\* end of the recovery timeout.
RecoveredToHalfOpen ==
    /\ circuit_breaker.state = "HALF_OPEN"
    /\ last.op = "can_execute"
    /\ last.ret = TRUE
    /\ last.at = circuit_breaker.last_failure_time + circuit_breaker.recovery_timeout
    /\ circuit_breaker.success_count = 0
    /\ circuit_breaker.failure_count >= circuit_breaker.failure_threshold

\* C7: in HALF_OPEN one record_failure() returns the breaker to OPEN with
\* last_failure_time = now, whatever success_count is, so can_execute() is
\* false again for a full recovery_timeout.
HalfOpenFailureReopens ==
    [][ /\ (CBRecordFailure /\ circuit_breaker.state = "HALF_OPEN") =>
              /\ circuit_breaker'.state = "OPEN"
              /\ circuit_breaker'.last_failure_time = now
        /\ (CBCanExecute /\ cb_hist.reopened # -1
              /\ now - cb_hist.reopened < circuit_breaker.recovery_timeout) =>
              /\ last'.ret = FALSE
              /\ circuit_breaker'.state = "OPEN"
    ]_vars

\* A failure in HALF_OPEN after one success reopened the breaker, and a later
\* can_execute() inside the new timeout was refused.
ReopenedFromHalfOpen ==
    /\ circuit_breaker.state = "OPEN"
    /\ cb_hist.reopened # -1
    /\ circuit_breaker.success_count >= 1
    /\ last.op = "can_execute"
    /\ last.ret = FALSE
    /\ last.at > cb_hist.reopened

\* C8: HALF_OPEN -> CLOSED happens exactly when success_threshold successes
\* were recorded since HALF_OPEN was entered with no failure in between; with
\* fewer it stays HALF_OPEN; on entering CLOSED failure_count is 0.
HalfOpenClosesAtThreshold ==
    [][ /\ circuit_breaker.state = "HALF_OPEN" =>
              cb_hist.succs < circuit_breaker.success_threshold
        /\ (CBRecordSuccess /\ circuit_breaker.state = "HALF_OPEN") =>
              IF cb_hist.succs + 1 = circuit_breaker.success_threshold
                  THEN /\ circuit_breaker'.state = "CLOSED"
                       /\ circuit_breaker'.failure_count = 0
                  ELSE circuit_breaker'.state = "HALF_OPEN"
        /\ (circuit_breaker.state # "CLOSED" /\ circuit_breaker'.state = "CLOSED") =>
              /\ CBRecordSuccess
              /\ circuit_breaker.state = "HALF_OPEN"
              /\ cb_hist'.succs = circuit_breaker.success_threshold
              /\ circuit_breaker'.failure_count = 0
    ]_vars

\* The breaker closed at the second success of its second HALF_OPEN period
\* (the first period ended in a failure after one success).
ClosedAfterSecondTrial ==
    /\ circuit_breaker.state = "CLOSED"
    /\ circuit_breaker.success_threshold = 2
    /\ cb_hist.succs = 2
    /\ cb_hist.reopened # -1
    /\ last.op = "record_success"
    /\ circuit_breaker.failure_count = 0

\* --------------------------------------------------- RateLimiter, whole
\* The TokenBucket of RateLimiter.__init__: full, refilled at
\* requests_per_minute / 60 tokens per second.
LimiterBucket ==
    [capacity |-> RequestsPerMinute,
     tokens |-> RequestsPerMinute * TokenUnit,
     refill_rate |-> (RequestsPerMinute * TokenUnit) \div TicksPerMinute,
     last_refill |-> 0]

Init ==
    /\ now = 0
    /\ token_bucket = LimiterBucket
    /\ circuit_breaker = NewBreaker(FailureThreshold, RecoveryTimeout, SuccessThreshold)
    /\ cb_enabled \in BOOLEAN
    /\ last = NoCall
    /\ base = [tokens |-> 0, at |-> 0]
    /\ avail_seen = -1
    /\ cb_hist = NoHist
    /\ InitLimiterIdle

\* No task is in the middle of a run: the event loop may pick any ready task.
Quiet == drain.pc \notin {"top", "item"}

\* What a refill at time t adds to bucket b (history only).
Credit(b, t) ==
    Min(b.capacity * TokenUnit - b.tokens, (t - b.last_refill) * b.refill_rate)

\* `if self.circuit_breaker and not self.circuit_breaker.can_execute()`.
BreakerCheck ==
    IF cb_enabled THEN can_execute(circuit_breaker, now)
                  ELSE [cb |-> circuit_breaker, ret |-> TRUE]

\* The record of one acquire() call.
Call(p, d, f, r) == [priority |-> p, deadline |-> d, future |-> f, ret |-> r]

\* RateLimiter.start() without its `if self._running: return`.
StartUnguarded(limit) ==
    /\ Quiet
    /\ epoch < limit
    /\ running' = TRUE
    /\ drain' = [pc |-> "start", req |-> 0]
    /\ epoch' = epoch + 1
    /\ UNCHANGED <<now, token_bucket, circuit_breaker, last, base, avail_seen, cb_hist,
                   cb_enabled, requests, lanes, getters, woken, got, stats, ledger>>

\* RateLimiter.start(), while fewer than `limit` drain tasks were created.
StartUpTo(limit) ==
    /\ Quiet
    /\ IF running
          THEN UNCHANGED <<running, drain, epoch>>
          ELSE /\ epoch < limit
               /\ running' = TRUE
               /\ drain' = [pc |-> "start", req |-> 0]
               /\ epoch' = epoch + 1
    /\ UNCHANGED <<now, token_bucket, circuit_breaker, last, base, avail_seen, cb_hist,
                   cb_enabled, requests, lanes, getters, woken, got, stats, ledger>>

Start == StartUpTo(MaxStarts)

\* A getter task left behind by a cancelled drain task keeps waiting.
Orphan(q) == [i \in 1..Len(q) |-> IF q[i] = "cur" THEN "old" ELSE q[i]]

\* RateLimiter.stop(): the drain task is cancelled wherever it is suspended; the
\* getter tasks of PriorityQueue.get() are not (CancelledError is no Exception).
Stop ==
    /\ Quiet
    /\ running' = FALSE
    /\ drain' = [pc |-> "none", req |-> 0]
    /\ getters' = [p \in Priority |-> Orphan(getters[p])]
    /\ woken' = [p \in Priority |-> Orphan(woken[p])]
    /\ got' = [p \in Priority |-> 0]
    /\ ledger' = [ledger EXCEPT
                     !.lost = @ \cup {got[p] : p \in {q \in Priority : got[q] # 0}}
                                \cup (IF drain.req # 0 THEN {drain.req} ELSE {}),
                     !.ended = IF drain.pc # "none" THEN @ + 1 ELSE @]
    /\ UNCHANGED <<now, token_bucket, circuit_breaker, last, base, avail_seen, cb_hist,
                   cb_enabled, epoch, requests, lanes, stats>>

\* RateLimiter.acquire(priority, timeout) up to its return or its suspension
\* in wait_for.
AcquireUpTo(limit, p, timeout) ==
    /\ Quiet
    /\ Len(requests) < limit
    /\ LET k == Len(requests) + 1
           chk == BreakerCheck
           c == consume(token_bucket, 1, now)
       IN  IF ~chk.ret
             THEN /\ stats' = [stats EXCEPT !.requests_rejected = @ + 1]
                  /\ requests' = Append(requests, Call(p, 0, "none", "raised"))
                  /\ circuit_breaker' = chk.cb
                  /\ UNCHANGED <<token_bucket, lanes, getters, woken, ledger>>
             ELSE
               /\ circuit_breaker' = chk.cb
               /\ token_bucket' = c.bucket
               /\ IF c.ret
                    THEN /\ stats' = [stats EXCEPT !.requests_processed = @ + 1]
                         /\ requests' = Append(requests, Call(p, 0, "none", "true"))
                         /\ ledger' = [ledger EXCEPT
                                          !.consumed = @ + 1,
                                          !.credited = @ + Credit(token_bucket, now)]
                         /\ UNCHANGED <<lanes, getters, woken>>
                    ELSE /\ stats' = [stats EXCEPT !.requests_queued = @ + 1]
                         /\ requests' = Append(requests,
                                               Call(p, now + timeout, "pending", "waiting"))
                         /\ ledger' = [ledger EXCEPT
                                          !.credited = @ + Credit(token_bucket, now)]
                         /\ lanes' = [lanes EXCEPT ![p] = Append(@, k)]
                         /\ IF getters[p] # << >>
                              THEN /\ woken' = [woken EXCEPT
                                                   ![p] = Append(@, Head(getters[p]))]
                                   /\ getters' = [getters EXCEPT ![p] = Tail(@)]
                              ELSE UNCHANGED <<getters, woken>>
    /\ UNCHANGED <<now, last, base, avail_seen, cb_hist, cb_enabled, running, drain,
                   epoch, got>>

Acquire(p, timeout) == AcquireUpTo(MaxAcquires, p, timeout)

\* acquire(): wait_for returns the value the drain task gave the future.
AcquireReturn(k) ==
    /\ Quiet
    /\ requests[k].ret = "waiting"
    /\ requests[k].future \in {"true", "false"}
    /\ requests' = [requests EXCEPT ![k].ret = requests[k].future]
    /\ UNCHANGED <<now, token_bucket, circuit_breaker, last, base, avail_seen, cb_hist,
                   cb_enabled, running, drain, epoch, lanes, getters, woken, got,
                   stats, ledger>>

\* acquire() whose TimeoutError handler forgets to count the rejection.
AcquireTimeoutUncounted(k) ==
    /\ Quiet
    /\ requests[k].ret = "waiting"
    /\ requests[k].future = "pending"
    /\ now >= requests[k].deadline
    /\ requests' = [requests EXCEPT ![k].ret = "false", ![k].future = "cancelled"]
    /\ UNCHANGED <<now, token_bucket, circuit_breaker, last, base, avail_seen, cb_hist,
                   cb_enabled, running, drain, epoch, lanes, getters, woken, got,
                   stats, ledger>>

\* acquire(): wait_for times out, cancels the future and raises TimeoutError.
AcquireTimeout(k) ==
    /\ Quiet
    /\ requests[k].ret = "waiting"
    /\ requests[k].future = "pending"
    /\ now >= requests[k].deadline
    /\ requests' = [requests EXCEPT ![k].ret = "false", ![k].future = "cancelled"]
    /\ stats' = [stats EXCEPT !.requests_rejected = @ + 1]
    /\ UNCHANGED <<now, token_bucket, circuit_breaker, last, base, avail_seen, cb_hist,
                   cb_enabled, running, drain, epoch, lanes, getters, woken, got,
                   ledger>>

\* The lane checks of PriorityQueue.get() with normal looked at before high.
FirstLaneNormalFirst ==
    IF lanes["normal"] # << >> THEN "normal"
    ELSE IF lanes["high"] # << >> THEN "high" ELSE "low"

\* The highest-priority lane that holds an item.
FirstLane ==
    IF lanes["high"] # << >> THEN "high"
    ELSE IF lanes["normal"] # << >> THEN "normal" ELSE "low"

\* _process_queue at `while self._running`, entering PriorityQueue.get():
\* either a lane holds an item, or three getter tasks are created and the
\* drain task suspends in asyncio.wait.
DrainTop ==
    /\ drain.pc \in {"start", "top", "errsleep"}
    /\ IF ~running
          THEN /\ drain' = [pc |-> "none", req |-> 0]
               /\ ledger' = [ledger EXCEPT !.ended = @ + 1]
               /\ UNCHANGED <<lanes, getters>>
          ELSE IF \E p \in Priority : lanes[p] # << >>
              THEN /\ drain' = [pc |-> "item", req |-> Head(lanes[FirstLane])]
                   /\ lanes' = [lanes EXCEPT ![FirstLane] = Tail(@)]
                   /\ UNCHANGED <<getters, ledger>>
              ELSE /\ drain' = [pc |-> "get", req |-> 0]
                   /\ getters' = [p \in Priority |-> Append(getters[p], "cur")]
                   /\ UNCHANGED <<lanes, ledger>>
    /\ UNCHANGED <<now, token_bucket, circuit_breaker, last, base, avail_seen, cb_hist,
                   cb_enabled, running, epoch, requests, woken, got, stats>>
    /\ UNCHANGED client

\* A getter task resumes after put_nowait set its future (asyncio.Queue.get).
GetterRun(p) ==
    /\ Quiet
    /\ woken[p] # << >>
    /\ LET g == Head(woken[p]) IN
       CASE g = "cancelled" ->
               \* cancelled by PriorityQueue.get() before it ran: hand the wake-up on
               /\ IF lanes[p] # << >> /\ getters[p] # << >>
                     THEN /\ woken' = [woken EXCEPT
                                          ![p] = Append(Tail(@), Head(getters[p]))]
                          /\ getters' = [getters EXCEPT ![p] = Tail(@)]
                     ELSE /\ woken' = [woken EXCEPT ![p] = Tail(@)]
                          /\ UNCHANGED getters
               /\ UNCHANGED <<lanes, got, ledger>>
         [] g # "cancelled" /\ lanes[p] = << >> ->
               \* the item is gone: wait again
               /\ woken' = [woken EXCEPT ![p] = Tail(@)]
               /\ getters' = [getters EXCEPT ![p] = Append(@, g)]
               /\ UNCHANGED <<lanes, got, ledger>>
         [] g = "cur" /\ lanes[p] # << >> ->
               /\ woken' = [woken EXCEPT ![p] = Tail(@)]
               /\ lanes' = [lanes EXCEPT ![p] = Tail(@)]
               /\ got' = [got EXCEPT ![p] = Head(lanes[p])]
               /\ UNCHANGED <<getters, ledger>>
         [] g = "old" /\ lanes[p] # << >> ->
               \* a getter of a cancelled drain task takes the item; nobody reads it
               /\ woken' = [woken EXCEPT ![p] = Tail(@)]
               /\ lanes' = [lanes EXCEPT ![p] = Tail(@)]
               /\ ledger' = [ledger EXCEPT !.lost = @ \cup {Head(lanes[p])}]
               /\ UNCHANGED <<getters, got>>
    /\ UNCHANGED <<now, token_bucket, circuit_breaker, last, base, avail_seen, cb_hist,
                   cb_enabled, running, drain, epoch, requests, stats>>
    /\ UNCHANGED client

Without(q, x) == SelectSeq(q, LAMBDA g : g # x)
Cancelled(q) == [i \in 1..Len(q) |-> IF q[i] = "cur" THEN "cancelled" ELSE q[i]]

\* PriorityQueue.get() resumes from asyncio.wait: it cancels the pending getter
\* tasks and returns the result of next(iter(done)), any one finished task.
DrainWake ==
    /\ Quiet
    /\ drain.pc = "get"
    /\ \E p \in {q \in Priority : got[q] # 0} :
          /\ drain' = [pc |-> "item", req |-> got[p]]
          /\ ledger' = [ledger EXCEPT
                           !.lost = @ \cup {got[q] : q \in {r \in Priority :
                                                             r # p /\ got[r] # 0}}]
    /\ got' = [p \in Priority |-> 0]
    /\ getters' = [p \in Priority |-> Without(getters[p], "cur")]
    /\ woken' = [p \in Priority |-> Cancelled(woken[p])]
    /\ UNCHANGED <<now, token_bucket, circuit_breaker, last, base, avail_seen, cb_hist,
                   cb_enabled, running, epoch, requests, lanes, stats>>
    /\ UNCHANGED client

\* A drain task that counts the request before it writes the future.
ResolveCountsFirst(r, granted) ==
    /\ stats' = IF granted
                   THEN [stats EXCEPT !.requests_processed = @ + 1]
                   ELSE [stats EXCEPT !.requests_rejected = @ + 1]
    /\ IF requests[r].future # "pending"
          THEN /\ drain' = [pc |-> "errsleep", req |-> 0]
               /\ UNCHANGED requests
          ELSE /\ drain' = [pc |-> "top", req |-> 0]
               /\ requests' = [requests EXCEPT
                                   ![r].future = IF granted THEN "true" ELSE "false"]

\* A drain task that ends when set_result raises.
ResolveEndsOnError(r, granted) ==
    IF requests[r].future # "pending"
      THEN /\ drain' = [pc |-> "none", req |-> 0]
           /\ UNCHANGED <<requests, stats>>
      ELSE /\ drain' = [pc |-> "top", req |-> 0]
           /\ requests' = [requests EXCEPT
                               ![r].future = IF granted THEN "true" ELSE "false"]
           /\ stats' = IF granted
                          THEN [stats EXCEPT !.requests_processed = @ + 1]
                          ELSE [stats EXCEPT !.requests_rejected = @ + 1]

\* A drain task whose write replaces whatever the future holds.
ResolveOverwrites(r, granted) ==
    /\ drain' = [pc |-> "top", req |-> 0]
    /\ requests' = [requests EXCEPT
                        ![r].future = IF granted THEN "true" ELSE "false"]
    /\ stats' = IF granted
                   THEN [stats EXCEPT !.requests_processed = @ + 1]
                   ELSE [stats EXCEPT !.requests_rejected = @ + 1]

\* _process_queue: future.set_result(granted), then the counter of the
\* outcome; set_result on a future that is not pending raises
\* InvalidStateError before the counter is reached.
Resolve(r, granted) ==
    IF requests[r].future # "pending"
      THEN /\ drain' = [pc |-> "errsleep", req |-> 0]
           /\ UNCHANGED <<requests, stats>>
      ELSE /\ drain' = [pc |-> "top", req |-> 0]
           /\ requests' = [requests EXCEPT
                               ![r].future = IF granted THEN "true" ELSE "false"]
           /\ stats' = IF granted
                          THEN [stats EXCEPT !.requests_processed = @ + 1]
                          ELSE [stats EXCEPT !.requests_rejected = @ + 1]

\* _process_queue from `while self._running and not consume()` to the end of
\* the iteration: sleep again, or resolve the future of the dequeued request.
DrainTokens ==
    /\ drain.pc \in {"item", "sleep"}
    /\ IF ~running
          THEN /\ drain' = [pc |-> "none", req |-> 0]
               /\ ledger' = [ledger EXCEPT !.ended = @ + 1]
               /\ UNCHANGED <<token_bucket, circuit_breaker, requests, stats>>
          ELSE
            LET c == consume(token_bucket, 1, now)
                chk == BreakerCheck
                r == drain.req
            IN  IF ~c.ret
                  THEN /\ token_bucket' = time_until_available(c.bucket, 1, now).bucket
                       /\ drain' = [drain EXCEPT !.pc = "sleep"]
                       /\ ledger' = [ledger EXCEPT
                                        !.credited = @ + Credit(token_bucket, now)]
                       /\ UNCHANGED <<circuit_breaker, requests, stats>>
                  ELSE
                    /\ token_bucket' = c.bucket
                    /\ ledger' = [ledger EXCEPT
                                     !.consumed = @ + 1,
                                     !.credited = @ + Credit(token_bucket, now)]
                    /\ circuit_breaker' = chk.cb
                    /\ Resolve(r, chk.ret)
    /\ UNCHANGED <<now, last, base, avail_seen, cb_hist, cb_enabled, running, epoch,
                   lanes, getters, woken, got>>
    /\ UNCHANGED client

\* RateLimiter.record_success().
RecordSuccess ==
    /\ Quiet
    /\ circuit_breaker' = IF cb_enabled THEN record_success(circuit_breaker)
                                        ELSE circuit_breaker
    /\ UNCHANGED <<now, token_bucket, last, base, avail_seen, cb_hist, cb_enabled,
                   running, drain, epoch, requests, lanes, getters, woken, got, stats,
                   ledger>>

\* RateLimiter.record_failure().
RecordFailure ==
    /\ Quiet
    /\ circuit_breaker.failure_count < MaxFailures
    /\ LET cb == record_failure(circuit_breaker, now) IN
       IF cb_enabled
          THEN /\ circuit_breaker' = cb
               /\ stats' = IF cb.state = "OPEN"
                              THEN [stats EXCEPT !.circuit_breaker_trips = @ + 1]
                              ELSE stats
          ELSE UNCHANGED <<circuit_breaker, stats>>
    /\ UNCHANGED <<now, token_bucket, last, base, avail_seen, cb_hist, cb_enabled,
                   running, drain, epoch, requests, lanes, getters, woken, got, ledger>>

\* RateLimiter.get_status(): tokens_available() refills the bucket.
GetStatus ==
    /\ Quiet
    /\ token_bucket' = tokens_available(token_bucket, now).bucket
    /\ ledger' = [ledger EXCEPT !.credited = @ + Credit(token_bucket, now)]
    /\ UNCHANGED <<now, circuit_breaker, last, base, avail_seen, cb_hist, cb_enabled,
                   running, drain, epoch, requests, lanes, getters, woken, got, stats>>
    /\ UNCHANGED client

LimiterTick == TickUpTo(MaxClock)

\* The calls above made by a caller other than a modelled _make_request.
CallerStart(limit) == StartUpTo(limit) /\ UNCHANGED client
CallerStop == Stop /\ UNCHANGED client
CallerAcquire(p, timeout) == Acquire(p, timeout) /\ UNCHANGED client
CallerReturn(k) == AcquireReturn(k) /\ UNCHANGED client
CallerTimeout(k) == AcquireTimeout(k) /\ UNCHANGED client
CallerSuccess == RecordSuccess /\ UNCHANGED client
CallerFailure == RecordFailure /\ UNCHANGED client

Next ==
    \/ CallerStart(MaxStarts)
    \/ CallerStop
    \/ \E p \in Priority, t \in 1..MaxTimeout : CallerAcquire(p, t)
    \/ \E k \in 1..Len(requests) : CallerReturn(k)
    \/ \E k \in 1..Len(requests) : CallerTimeout(k)
    \/ DrainTop
    \/ \E p \in Priority : GetterRun(p)
    \/ DrainWake
    \/ DrainTokens
    \/ CallerSuccess
    \/ CallerFailure
    \/ GetStatus
    \/ LimiterTick

Spec == Init /\ [][Next]_vars

\* ------------------------------- RateLimiter stopped and started again
\* A limiter built without a breaker, whose drain task is started up to
\* MaxRestarts times, with acquire() timeouts of up to MaxWait ticks.
InitRestart == Init /\ ~cb_enabled

NextRestart ==
    \/ CallerStart(MaxRestarts)
    \/ CallerStop
    \/ \E p \in Priority, t \in 1..MaxWait : CallerAcquire(p, t)
    \/ \E k \in 1..Len(requests) : CallerReturn(k)
    \/ \E k \in 1..Len(requests) : CallerTimeout(k)
    \/ DrainTop
    \/ \E p \in Priority : GetterRun(p)
    \/ DrainWake
    \/ DrainTokens
    \/ GetStatus
    \/ LimiterTick

SpecRestart == InitRestart /\ [][NextRestart]_vars

\* ------------------------------------ RateLimiter under a run of arrivals
\* A started limiter without a breaker that is never stopped and receives up
\* to MaxArrivals acquire() calls, more than the bucket holds plus one.
NextArrivals ==
    \/ CallerStart(MaxStarts)
    \/ \E p \in Priority, t \in 1..MaxTimeout :
          AcquireUpTo(MaxArrivals, p, t) /\ UNCHANGED client
    \/ \E k \in 1..Len(requests) : CallerReturn(k)
    \/ \E k \in 1..Len(requests) : CallerTimeout(k)
    \/ DrainTop
    \/ \E p \in Priority : GetterRun(p)
    \/ DrainWake
    \/ DrainTokens
    \/ LimiterTick

SpecArrivals == InitRestart /\ [][NextArrivals]_vars

\* --------------------------------------------------------- RaindropClient
\* acquire(priority) as _make_request calls it: timeout = 30.0 seconds.
DefaultTimeout == (30 * TicksPerMinute) \div 60

\* What one HTTP attempt can end with: a transport failure raised by
\* session.request, or a response with a status, an error message that does
\* or does not mention a token, and a Retry-After header that is absent or
\* holds a number of seconds or an HTTP date.
Transport == {"ClientError", "TimeoutError"}
Status == {200, 201, 302, 400, 401, 403, 404, 429, 500, 503}
Message == {"plain", "token", "token expired"}
RetryAfter == {"absent", "0", "30", "Wed, 21 Oct 2015 07:28:00 GMT"}
Response == [kind : {"response"}, status : Status, message : Message,
             retry_after : RetryAfter]
\* The message is read for a 401 only and the header for a 429 only.
Reply == [kind : {"transport"}, error : Transport]
           \cup {r \in Response : /\ r.message # "plain" => r.status = 401
                                  /\ r.retry_after # "absent" => r.status = 429}

\* Python's None where an integer may stand.
None == -1

\* int(retry_after): the number a decimal string holds, or ValueError.
int(text) ==
    CASE text = "0" -> [raises |-> "none", value |-> 0]
      [] text = "30" -> [raises |-> "none", value |-> 30]
      [] OTHER -> [raises |-> "ValueError", value |-> None]

\* A RaindropError subclass as its constructor leaves it.
Raised(name, status_code, retry_after) ==
    [outcome |-> name, status_code |-> status_code, retry_after |-> retry_after]

\* RaindropClient._handle_response: the data, or the exception it raises.
_handle_response(status, message, retry_after) ==
    IF status = 200 \/ status = 201 THEN Raised("data", None, None)
    ELSE IF status = 400 THEN Raised("ValidationError", 400, None)
    ELSE IF status = 401 THEN
        IF message \in {"token", "token expired"}
            THEN IF message = "token expired" THEN Raised("TokenExpiredError", 401, None)
                                              ELSE Raised("InvalidTokenError", 401, None)
            ELSE Raised("AuthenticationError", 401, None)
    ELSE IF status = 403 THEN Raised("PermissionError", 403, None)
    ELSE IF status = 404 THEN Raised("NotFoundError", 404, None)
    ELSE IF status = 429 THEN
        IF retry_after # "absent"
            THEN IF int(retry_after).raises = "none"
                    THEN Raised("RateLimitError", 429, int(retry_after).value)
                    ELSE Raised(int(retry_after).raises, None, None)
            ELSE Raised("RateLimitError", 429, None)
    ELSE IF status >= 500 THEN Raised("ServerError", status, None)
    ELSE Raised("RaindropError", status, None)

\* What the `try` body of one attempt ends with.
AttemptResult(r) ==
    IF r.kind = "transport"
       THEN r.error
       ELSE _handle_response(r.status, r.message, r.retry_after).outcome

CaughtAnyError(e) == e # "data"

\* `except (ClientError, asyncio.TimeoutError)`: the exceptions the retry loop
\* catches; every other exception leaves _make_request at once.
Caught(e) == e \in {"ClientError", "TimeoutError"}

get_delay_uncapped(cfg, attempt) == cfg.base_delay * (2 ^ attempt)

\* RetryConfig.get_delay(attempt).
get_delay(cfg, attempt) == Min(cfg.base_delay * (2 ^ attempt), cfg.max_delay)

\* RaindropClient.__init__ with RetryConfig(mr, bd, md).
NewClient(mr, bd, md) ==
    [pc |-> "idle", session |-> FALSE, closed |-> FALSE,
     retry_config |-> [max_retries |-> mr, base_delay |-> bd, max_delay |-> md],
     calls |-> 0, req |-> 0, attempt |-> 0, attempts |-> 0, slept |-> << >>,
     outcome |-> "none", sent |-> 0, recorded |-> 0,
     session_closed |-> FALSE, connector_closed |-> FALSE, initialized |-> "none"]

InitClient ==
    /\ now = 0
    /\ token_bucket = LimiterBucket
    /\ circuit_breaker = NewBreaker(FailureThreshold, RecoveryTimeout, SuccessThreshold)
    /\ cb_enabled = TRUE
    /\ last = NoCall
    /\ base = [tokens |-> 0, at |-> 0]
    /\ avail_seen = -1
    /\ cb_hist = NoHist
    /\ running = FALSE
    /\ drain = [pc |-> "none", req |-> 0]
    /\ epoch = 0
    /\ requests = << >>
    /\ lanes = [p \in Priority |-> << >>]
    /\ getters = [p \in Priority |-> << >>]
    /\ woken = [p \in Priority |-> << >>]
    /\ got = [p \in Priority |-> 0]
    /\ stats = NoStats
    /\ ledger = NoLedger
    /\ \E mr \in 0..MaxRetries, bd \in 1..MaxBaseDelay, md \in 1..MaxDelayCap :
          client = NewClient(mr, bd, md)

\* RaindropClient.initialize(), between two requests: it raises RaindropError
\* on a closed client, and otherwise starts the limiter and creates the session.
ClientInitialize ==
    /\ client.pc = "idle"
    /\ IF client.closed
          THEN /\ client' = [client EXCEPT !.initialized = "RaindropError"]
               /\ UNCHANGED <<now, token_bucket, circuit_breaker, last, base,
                              avail_seen, cb_hist, cb_enabled, running, drain, epoch,
                              requests, lanes, getters, woken, got, stats, ledger>>
          ELSE /\ StartUpTo(MaxStarts)
               /\ client' = [client EXCEPT !.session = TRUE, !.initialized = "done"]

\* close() that leaves the rate limiter running.
ClientCloseKeepsLimiter ==
    /\ client.pc = "idle"
    /\ IF client.closed
          THEN UNCHANGED vars
          ELSE /\ client' = [client EXCEPT !.closed = TRUE,
                                           !.session_closed = client.session,
                                           !.connector_closed = TRUE]
               /\ UNCHANGED <<now, token_bucket, circuit_breaker, last, base,
                              avail_seen, cb_hist, cb_enabled, running, drain, epoch,
                              requests, lanes, getters, woken, got, stats, ledger>>

\* RaindropClient.close(), between two requests: nothing on a closed client;
\* otherwise it stops the limiter and closes the session, if there is one,
\* and the connector.
ClientClose ==
    /\ client.pc = "idle"
    /\ IF client.closed
          THEN UNCHANGED vars
          ELSE /\ Stop
               /\ client' = [client EXCEPT !.closed = TRUE,
                                           !.session_closed = client.session,
                                           !.connector_closed = TRUE]

\* _make_request from its entry to the return or suspension of acquire();
\* every caller in the client leaves priority at its default, "normal".
ClientRequest ==
    /\ client.pc = "idle"
    /\ client.calls < MaxRequests
    /\ LET c == [client EXCEPT !.calls = @ + 1, !.req = 0, !.attempt = 0,
                               !.attempts = 0, !.slept = << >>, !.recorded = 0]
       IN  IF client.closed \/ ~client.session
             THEN /\ Quiet
                  /\ client' = [c EXCEPT !.outcome = "RaindropError"]
                  /\ UNCHANGED <<now, token_bucket, circuit_breaker, last, base,
                                 avail_seen, cb_hist, cb_enabled, running, drain, epoch,
                                 requests, lanes, getters, woken, got, stats, ledger>>
             ELSE /\ Acquire("normal", DefaultTimeout)
                  /\ LET k == Len(requests')
                         ret == requests'[k].ret
                     IN  client' =
                           CASE ret = "raised" -> [c EXCEPT !.outcome = "RateLimitError"]
                             [] ret = "true" -> [c EXCEPT !.pc = "send", !.outcome = "none"]
                             [] OTHER -> [c EXCEPT !.pc = "acquire", !.req = k,
                                                   !.outcome = "none"]

\* _make_request resumes from acquire(): permission, or False after the timeout.
ClientResume ==
    /\ client.pc = "acquire"
    /\ AcquireReturn(client.req) \/ AcquireTimeout(client.req)
    /\ client' = IF requests'[client.req].ret = "true"
                     THEN [client EXCEPT !.pc = "send", !.req = 0]
                     ELSE [client EXCEPT !.pc = "idle", !.req = 0,
                                         !.outcome = "RateLimitError"]

\* One pass of the retry loop issues its HTTP request.
ClientSend ==
    /\ Quiet
    /\ client.pc = "send"
    /\ client' = [client EXCEPT !.pc = "inflight", !.attempts = @ + 1, !.sent = @ + 1]
    /\ UNCHANGED <<now, token_bucket, circuit_breaker, last, base, avail_seen, cb_hist,
                   cb_enabled, running, drain, epoch, requests, lanes, getters, woken,
                   got, stats, ledger>>

\* The attempt ends with reply r: return the data, propagate an exception the
\* loop does not catch, or record the failure and back off or give up.
ClientReceive(r) ==
    /\ client.pc = "inflight"
    /\ LET e == AttemptResult(r) IN
       CASE e = "data" ->
               /\ RecordSuccess
               /\ client' = [client EXCEPT !.pc = "idle", !.outcome = "data",
                                           !.recorded = @ + 1]
         [] Caught(e) ->
               /\ RecordFailure
               /\ client' =
                     IF client.attempt = client.retry_config.max_retries
                        THEN [client EXCEPT !.pc = "idle", !.outcome = "NetworkError",
                                            !.recorded = @ + 1]
                        ELSE [client EXCEPT
                                 !.pc = "backoff", !.recorded = @ + 1,
                                 !.slept = Append(@, get_delay(client.retry_config,
                                                               client.attempt))]
         [] OTHER ->
               /\ Quiet
               /\ client' = [client EXCEPT !.pc = "idle", !.outcome = e]
               /\ UNCHANGED <<now, token_bucket, circuit_breaker, last, base,
                              avail_seen, cb_hist, cb_enabled, running, drain, epoch,
                              requests, lanes, getters, woken, got, stats, ledger>>

ClientWakeSameAttempt ==
    /\ Quiet
    /\ client.pc = "backoff"
    /\ client' = [client EXCEPT !.pc = "send"]
    /\ UNCHANGED <<now, token_bucket, circuit_breaker, last, base, avail_seen, cb_hist,
                   cb_enabled, running, drain, epoch, requests, lanes, getters, woken,
                   got, stats, ledger>>

\* asyncio.sleep(delay) is over: the loop goes on with the next attempt.
ClientWake ==
    /\ Quiet
    /\ client.pc = "backoff"
    /\ client' = [client EXCEPT !.pc = "send", !.attempt = @ + 1]
    /\ UNCHANGED <<now, token_bucket, circuit_breaker, last, base, avail_seen, cb_hist,
                   cb_enabled, running, drain, epoch, requests, lanes, getters, woken,
                   got, stats, ledger>>

NextClient ==
    \/ ClientInitialize
    \/ ClientClose
    \/ ClientRequest
    \/ ClientResume
    \/ ClientSend
    \/ \E r \in Reply : ClientReceive(r)
    \/ ClientWake
    \/ DrainTop
    \/ \E p \in Priority : GetterRun(p)
    \/ DrainWake
    \/ DrainTokens
    \/ TickUpTo(ClientClock)

SpecClient == InitClient /\ [][NextClient]_vars

\* ------------------------------------- the stand-alone _handle_response
InitResponse ==
    /\ now = 0
    /\ token_bucket = LimiterBucket
    /\ circuit_breaker = NoBreaker
    /\ \E r \in Response : last = [op |-> "response", arg |-> r, ret |-> 0, at |-> 0]
    /\ base = [tokens |-> 0, at |-> 0]
    /\ avail_seen = -1
    /\ cb_hist = NoHist
    /\ cb_enabled = FALSE
    /\ InitLimiterIdle

HandleResponse ==
    /\ last.op = "response"
    /\ last' = [last EXCEPT
                   !.op = "_handle_response",
                   !.ret = _handle_response(last.arg.status, last.arg.message,
                                            last.arg.retry_after)]
    /\ UNCHANGED <<now, token_bucket, circuit_breaker, base, avail_seen, cb_hist>>
    /\ UNCHANGED rlVars

NextResponse == HandleResponse

SpecResponse == InitResponse /\ [][NextResponse]_vars

\* ------------------------------------------------ the tool-call boundary
\* An exception: its class and str(error) as a sequence of words.
Exc(type, message) == [type |-> type, message |-> message]

\* The classes an exception of the given class is an instance of.  The
\* PermissionError of raindrop.exceptions is not the builtin of that name.
Bases(type) ==
    {type, "Exception"} \cup
    CASE type \in {"InvalidTokenError", "TokenExpiredError"} ->
              {"AuthenticationError", "RaindropError"}
      [] type \in {"AuthenticationError", "RateLimitError", "ValidationError",
                   "NotFoundError", "PermissionError", "ServerError",
                   "NetworkError"} -> {"RaindropError"}
      [] type = "builtins.PermissionError" -> {"OSError"}
      [] type = "KeyError" -> {"LookupError"}
      [] OTHER -> {}

isinstance(error, class) == class \in Bases(error.type)

\* str.lower() on one word.
LowerWord(w) ==
    CASE w = "Rate" -> "rate"
      [] w = "Resource" -> "resource"
      [] w = "Unauthorized" -> "unauthorized"
      [] w = "Forbidden" -> "forbidden"
      [] w = "Too" -> "too"
      [] w = "Bad" -> "bad"
      [] w = "Server" -> "server"
      [] w = "Service" -> "service"
      [] w = "Invalid" -> "invalid"
      [] w = "Token" -> "token"
      [] w = "Request" -> "request"
      [] w = "Client" -> "client"
      [] w = "Unexpected" -> "unexpected"
      [] w = "Raindrop" -> "raindrop"
      [] w = "Unknown" -> "unknown"
      [] w = "URL" -> "url"
      [] w = "ID" -> "id"
      [] OTHER -> w

lower(text) == [i \in 1..Len(text) |-> LowerWord(text[i])]

\* `phrase in text`, both sequences of words.
Contains(text, phrase) ==
    \E i \in 0..(Len(text) - Len(phrase)) :
        \A j \in 1..Len(phrase) : text[i + j] = phrase[j]

\* utils.transformers.format_error_response(error, context).
format_error_response(error, context) ==
    LET code ==
          IF isinstance(error, "ValueError") THEN "INVALID_INPUT"
          ELSE IF isinstance(error, "KeyError") THEN "MISSING_FIELD"
          ELSE IF isinstance(error, "builtins.PermissionError") THEN "PERMISSION_DENIED"
          ELSE IF Contains(lower(error.message), <<"rate", "limit">>)
                  THEN "RATE_LIMIT_EXCEEDED"
          ELSE IF Contains(lower(error.message), <<"not", "found">>) THEN "NOT_FOUND"
          ELSE IF Contains(lower(error.message), <<"unauthorized">>) THEN "UNAUTHORIZED"
          ELSE "INTERNAL_ERROR"
    IN  IF context # ""
           THEN [error |-> [code |-> code, message |-> error.message,
                            context |-> context]]
           ELSE [error |-> [code |-> code, message |-> error.message]]

\* response_data.get("error", default) as _handle_response reads it: the
\* default of the status when the body names no error, else the body's text.
ErrorText(status, message) ==
    CASE message = "token" -> <<"Invalid", "token">>
      [] message = "token expired" -> <<"Token", "expired">>
      [] status = 400 -> <<"Bad", "request">>
      [] status = 401 -> <<"Unauthorized">>
      [] status = 403 -> <<"Forbidden">>
      [] status = 429 -> <<"Too", "many", "requests">>
      [] status >= 500 -> <<"Server", "error">>
      [] OTHER -> <<"Unexpected", "status", "code">>

\* The exception object _handle_response raises for a response.
ResponseError(r) ==
    LET e == _handle_response(r.status, r.message, r.retry_after).outcome IN
    CASE e = "NotFoundError" -> Exc(e, <<"Resource", "not", "found">>)
      [] e = "ValueError" -> Exc(e, <<"invalid", "literal", "for", "int()">>)
      [] OTHER -> Exc(e, ErrorText(r.status, r.message))

\* RateLimiter.acquire rejecting on an open breaker, and _make_request
\* giving up on the queue wait.
BreakerRejection ==
    Exc("RateLimitError",
        <<"Service", "temporarily", "unavailable", "(circuit", "breaker", "open)">>)
QueueTimeout ==
    Exc("RateLimitError",
        <<"Rate", "limit", "exceeded", "and", "request", "timed", "out">>)

\* Every exception that leaves RaindropClient._make_request.
CoreErrors ==
    {ResponseError(r) : r \in {x \in Reply : x.kind = "response" /\ AttemptResult(x) # "data"}}
      \cup {BreakerRejection, QueueTimeout,
            Exc("NetworkError", <<"Request", "timed", "out", "after", "multiple", "retries">>),
            Exc("NetworkError", <<"Request", "failed", "after", "retries">>),
            Exc("RaindropError", <<"Client", "has", "been", "closed">>)}

\* Python values of tool arguments: an int, a str or None.
IntV(n) == [t |-> "int", v |-> n]
StrV(text) == [t |-> "str", v |-> text]
NoneV == [t |-> "none", v |-> "None"]
Value == {IntV(n) : n \in {-1, 0, 1, 50, 51}}
           \cup {StrV(text) : text \in {"", "https://e.com", "e.com"}}
           \cup {NoneV}

\* bool(value) and str(value).
truthy(value) ==
    CASE value.t = "int" -> value.v # 0
      [] value.t = "str" -> value.v # ""
      [] OTHER -> FALSE
str(value) == IF value.t = "int" THEN ToString(value.v) ELSE value.v

\* dict.get(key, default).
get(args, key, default) == IF key \in DOMAIN args THEN args[key] ELSE default

\* urllib.parse.urlparse on the texts drawn.
urlparse(text) ==
    IF text = "https://e.com" THEN [scheme |-> "https", netloc |-> "e.com"]
                              ELSE [scheme |-> "", netloc |-> ""]

\* utils.transformers.validate_url(url).
validate_url(text) == urlparse(text).scheme # "" /\ urlparse(text).netloc # ""

\* utils.transformers.validate_collection_id(collection_id).
validate_collection_id(collection_id) ==
    \/ collection_id.t = "none"
    \/ collection_id.t = "int" /\ collection_id.v > 0

\* A call that returned value, and a call that raised error.
NoExc == Exc("none", << >>)
Returned(value) == [raises |-> NoExc, value |-> value]
Raising(error) == [raises |-> error, value |-> << >>]
ValueError(message) == Raising(Exc("ValueError", message))

\* utils.transformers.validate_mcp_tool_args(tool_name, args).
validate_mcp_tool_args(tool_name, args) ==
    CASE tool_name = "create_bookmark" ->
            IF "url" \notin DOMAIN args THEN ValueError(<<"URL", "is", "required">>)
            ELSE IF ~validate_url(str(args["url"]))
                    THEN ValueError(<<"Invalid", "URL", "format">>)
            ELSE Returned(<< >>)
      [] tool_name \in {"get_bookmark", "update_bookmark", "delete_bookmark"} ->
            IF "bookmark_id" \notin DOMAIN args
               THEN ValueError(<<"bookmark_id", "is", "required">>)
            ELSE IF args["bookmark_id"].t # "int"
                    THEN ValueError(<<"bookmark_id", "must", "be", "an", "integer">>)
            ELSE Returned(<< >>)
      [] tool_name = "create_collection" ->
            IF "title" \notin DOMAIN args THEN ValueError(<<"title", "is", "required">>)
            ELSE IF args["title"].t # "str" \/ args["title"].v = ""
                    THEN ValueError(<<"title", "must", "be", "a", "non-empty", "string">>)
            ELSE IF "parent_id" \in DOMAIN args /\ ~validate_collection_id(args["parent_id"])
                    THEN ValueError(<<"parent_id", "must", "be", "a", "valid",
                                      "collection", "ID">>)
            ELSE Returned(<< >>)
      [] OTHER -> Returned(<< >>)

\* utils.transformers.mcp_to_raindrop_search_params(args), for the keys
\* collection_id, sort, order, page and per_page.
mcp_to_raindrop_search_params(args) ==
    LET collection == get(args, "collection_id", NoneV)
        sort_field == get(args, "sort", StrV("created"))
        sort_order == get(args, "order", StrV("desc"))
        page == get(args, "page", IntV(0))
        per_page == get(args, "per_page", IntV(50))
    IN  IF truthy(collection) /\ ~validate_collection_id(collection)
           THEN ValueError(<<"Invalid", "collection", "ID">>)
        ELSE IF ~(sort_field.t = "str" /\ sort_field.v \in
                    {"score", "created", "lastUpdate", "title", "domain"})
           THEN ValueError(<<"Invalid", "sort", "field">>)
        ELSE IF ~(sort_order.t = "str" /\ sort_order.v \in {"asc", "desc"})
           THEN ValueError(<<"Invalid", "sort", "order">>)
        ELSE IF page.t # "int" \/ page.v < 0
           THEN ValueError(<<"Page", "must", "be", "a", "non-negative", "integer">>)
        ELSE IF per_page.t # "int" \/ per_page.v < 1 \/ per_page.v > 50
           THEN ValueError(<<"Per", "page", "must", "be", "an", "integer", "between",
                             "1", "and", "50">>)
        ELSE Returned(
               [k \in {"sort", "page", "perpage"}
                         \cup (IF truthy(collection) THEN {"collection"} ELSE {}) |->
                  CASE k = "collection" -> collection
                    [] k = "sort" -> IF sort_order.v = "desc"
                                        THEN StrV("-" \o sort_field.v) ELSE sort_field
                    [] k = "page" -> page
                    [] OTHER -> per_page])

\* A tag is a str taken as its sequence of characters.
Letters == {"A", "a", "b"}
Characters == Letters \cup {" ", "!"}
ListV(items) == [t |-> "list", v |-> items]

\* sanitize_tag cuts a tag to 50 characters.
TagLimit == 50

\* re.sub(r"[^\w\s-]", "", tag): only word characters, whitespace and
\* hyphens stay.
RemoveSpecial(tag) == SelectSeq(tag, LAMBDA c : c \in Letters \cup {" ", "-"})

\* re.sub(r"\s+", " ", tag): a run of whitespace becomes one blank.
RECURSIVE CollapseSpace(_)
CollapseSpace(tag) ==
    IF Len(tag) < 2 THEN tag
    ELSE IF tag[1] = " " /\ tag[2] = " " THEN CollapseSpace(Tail(tag))
    ELSE <<tag[1]>> \o CollapseSpace(Tail(tag))

\* str.strip().
RECURSIVE strip(_)
strip(tag) ==
    IF tag = << >> THEN tag
    ELSE IF tag[1] = " " THEN strip(Tail(tag))
    ELSE IF tag[Len(tag)] = " " THEN strip(SubSeq(tag, 1, Len(tag) - 1))
    ELSE tag

\* str.lower() on a sequence of characters.
lower_chars(tag) == [i \in 1..Len(tag) |-> IF tag[i] = "A" THEN "a" ELSE tag[i]]

\* utils.transformers.sanitize_tag(tag), tag a str.
sanitize_tag(tag) ==
    LET clean == strip(CollapseSpace(RemoveSpecial(tag)))
        cut == IF Len(clean) > TagLimit THEN SubSeq(clean, 1, TagLimit) ELSE clean
    IN  lower_chars(cut)

\* utils.transformers.remove_duplicates_preserve_order(items).
RECURSIVE remove_duplicates_preserve_order(_)
remove_duplicates_preserve_order(items) ==
    IF items = << >> THEN << >>
    ELSE LET front == remove_duplicates_preserve_order(SubSeq(items, 1, Len(items) - 1))
             item == items[Len(items)]
         IN  IF item # << >> /\ \A i \in 1..Len(front) : front[i] # item
                THEN Append(front, item)
                ELSE front

\* utils.transformers.mcp_to_raindrop_create_bookmark(args), for the keys
\* url, tags and collection_id.
mcp_to_raindrop_create_bookmark(args) ==
    LET url == get(args, "url", NoneV)
        tags == IF "tags" \in DOMAIN args /\ args["tags"].t = "list"
                   THEN remove_duplicates_preserve_order(
                          [i \in 1..Len(args["tags"].v) |-> sanitize_tag(args["tags"].v[i])])
                   ELSE << >>
    IN  IF ~truthy(url) THEN ValueError(<<"URL", "is", "required">>)
        ELSE IF ~validate_url(str(url)) THEN ValueError(<<"Invalid", "URL", "format">>)
        ELSE IF "collection_id" \in DOMAIN args
                  /\ ~validate_collection_id(args["collection_id"])
           THEN ValueError(<<"Invalid", "collection", "ID">>)
        ELSE Returned(
               [k \in {"link"} \cup (IF tags # << >> THEN {"tags"} ELSE {})
                         \cup (IF "collection_id" \in DOMAIN args
                                  THEN {"collection"} ELSE {}) |->
                  CASE k = "link" -> str(url)
                    [] k = "tags" -> tags
                    [] OTHER -> args["collection_id"]])

\* utils.transformers.mcp_to_raindrop_update_bookmark(args), for the keys
\* bookmark_id and collection_id.
mcp_to_raindrop_update_bookmark(args) ==
    LET bookmark_id == get(args, "bookmark_id", NoneV) IN
    IF ~truthy(bookmark_id) \/ bookmark_id.t # "int"
       THEN ValueError(<<"Valid", "bookmark_id", "is", "required">>)
    ELSE IF /\ "collection_id" \in DOMAIN args
            /\ args["collection_id"].t # "none"
            /\ ~validate_collection_id(args["collection_id"])
       THEN ValueError(<<"Invalid", "collection", "ID">>)
    ELSE Returned(<< >>)

\* utils.transformers.mcp_to_raindrop_create_collection(args), for the keys
\* title and parent_id.
mcp_to_raindrop_create_collection(args) ==
    LET title == get(args, "title", NoneV) IN
    IF ~truthy(title) \/ title.t # "str"
       THEN ValueError(<<"Title", "is", "required", "and", "cannot", "be", "empty">>)
    ELSE IF "parent_id" \in DOMAIN args /\ ~validate_collection_id(args["parent_id"])
       THEN ValueError(<<"Invalid", "parent", "collection", "ID">>)
    ELSE Returned(<< >>)

\* A method of the RaindropClient ends: it returns (NoExc) or raises what
\* _make_request raised, or KeyError for a body without the key it reads.
ApiOutcome == {NoExc} \cup CoreErrors \cup {Exc("KeyError", <<"'item'">>)}

\* The envelope of a tool call that went well.
Success == [success |-> TRUE, data |-> "data"]

\* Then the client call of a handler and its envelope.
ThenCall(converted, api) ==
    IF converted.raises # NoExc THEN converted
    ELSE IF api # NoExc THEN Raising(api)
    ELSE Returned(Success)

\* tools.bookmarks.get_recent_unsorted(client, arguments): what it returns or
\* raises, and the calls of client.search_bookmarks it made.
get_recent_unsorted(api, arguments) ==
    LET limit == get(arguments, "limit", IntV(50))
        checked == validate_mcp_tool_args("get_recent_unsorted", arguments)
        search_args == [k \in {"collection_id", "sort", "order", "page", "per_page"} |->
                          CASE k = "collection_id" -> IntV(-1)
                            [] k = "sort" -> StrV("created")
                            [] k = "order" -> StrV("desc")
                            [] k = "page" -> IntV(0)
                            [] OTHER -> IntV(Min(limit.v, 50))]
        params == mcp_to_raindrop_search_params(search_args)
    IN  IF checked.raises # NoExc
           THEN [raises |-> checked.raises, value |-> << >>, calls |-> << >>]
        ELSE IF limit.t # "int"
           THEN [raises |-> Exc("TypeError", <<"'<'", "not", "supported">>),
                 value |-> << >>, calls |-> << >>]
        ELSE IF params.raises # NoExc
           THEN [raises |-> params.raises, value |-> << >>, calls |-> << >>]
        ELSE IF api # NoExc
           THEN [raises |-> api, value |-> << >>, calls |-> <<params.value>>]
        ELSE [raises |-> NoExc,
              value |-> [success |-> TRUE, tool |-> "get_recent_unsorted",
                         data |-> "data"],
              calls |-> <<params.value>>]

\* The _handle_* method _call_tool routes the tool name to.
Handle(name, arguments, api) ==
    CASE name = "search_bookmarks" ->
            ThenCall(mcp_to_raindrop_search_params(arguments), api)
      [] name = "create_bookmark" ->
            ThenCall(mcp_to_raindrop_create_bookmark(arguments), api)
      [] name \in {"get_bookmark", "delete_bookmark"} -> ThenCall(Returned(<< >>), api)
      [] name = "update_bookmark" ->
            ThenCall(mcp_to_raindrop_update_bookmark(arguments), api)
      [] name = "list_collections" -> Returned(Success)
      [] name = "create_collection" ->
            ThenCall(mcp_to_raindrop_create_collection(arguments), api)
      [] name = "get_recent_unsorted" ->
            LET r == get_recent_unsorted(api, arguments) IN
            [raises |-> r.raises, value |-> r.value]
      [] OTHER -> ValueError(<<"Unknown", "tool">>)

\* json.dumps(obj) in a TextContent, and json.loads of its text.
TextContent(obj) == [type |-> "text", text |-> [json |-> obj]]
loads(text) == text.json

CaughtRaindropErrorOnly(error) == isinstance(error, "RaindropError")

\* `except Exception` of _call_tool.
CaughtByCallTool(error) == isinstance(error, "Exception")

\* RaindropMCPServer._call_tool(name, arguments), with or without a
\* raindrop_client.
_call_tool(name, arguments, has_client, api) ==
    LET checked == validate_mcp_tool_args(name, arguments)
        outcome ==
          IF checked.raises # NoExc THEN checked
          ELSE IF ~has_client
             THEN Raising(Exc("RuntimeError", <<"Raindrop", "client", "not", "initialized">>))
          ELSE Handle(name, arguments, api)
    IN  IF outcome.raises = NoExc
           THEN [raises |-> NoExc, content |-> <<TextContent(outcome.value)>>]
        ELSE IF CaughtByCallTool(outcome.raises)
           THEN [raises |-> NoExc,
                 content |-> <<TextContent(
                                 format_error_response(outcome.raises, "Tool: " \o name))>>]
        ELSE [raises |-> outcome.raises, content |-> << >>]

\* ------------------------------------------- the stand-alone tool call
ToolName == {"search_bookmarks", "create_bookmark", "get_bookmark", "update_bookmark",
             "delete_bookmark", "list_collections", "create_collection",
             "get_recent_unsorted", "invalid_tool"}

\* The argument keys drawn for a tool.
KeysOf(name) ==
    CASE name = "search_bookmarks" -> {"collection_id", "per_page"}
      [] name = "create_bookmark" -> {"url", "collection_id"}
      [] name \in {"get_bookmark", "update_bookmark", "delete_bookmark"} -> {"bookmark_id"}
      [] name = "create_collection" -> {"title", "parent_id"}
      [] name = "get_recent_unsorted" -> {"limit"}
      [] OTHER -> {}

ArgumentMaps(keys) == UNION {[d -> Value] : d \in SUBSET keys}

InitTool ==
    /\ now = 0
    /\ token_bucket = LimiterBucket
    /\ circuit_breaker = NoBreaker
    /\ \E name \in ToolName, has_client \in BOOLEAN, api \in ApiOutcome :
          \E arguments \in ArgumentMaps(KeysOf(name)) :
             last = [op |-> "tool call",
                     arg |-> [name |-> name, arguments |-> arguments,
                              has_client |-> has_client, api |-> api],
                     ret |-> 0, at |-> 0]
    /\ base = [tokens |-> 0, at |-> 0]
    /\ avail_seen = -1
    /\ cb_hist = NoHist
    /\ cb_enabled = FALSE
    /\ InitLimiterIdle

\* The MCP server runs the tool call.
CallTool ==
    /\ last.op = "tool call"
    /\ last' = [last EXCEPT !.op = "_call_tool",
                            !.ret = _call_tool(last.arg.name, last.arg.arguments,
                                               last.arg.has_client, last.arg.api)]
    /\ UNCHANGED <<now, token_bucket, circuit_breaker, base, avail_seen, cb_hist>>
    /\ UNCHANGED rlVars

\* get_recent_unsorted(client, arguments) is called on a client.
CallRecentUnsorted ==
    /\ last.op = "tool call"
    /\ last.arg.name = "get_recent_unsorted"
    /\ last.arg.has_client
    /\ last' = [last EXCEPT !.op = "get_recent_unsorted",
                            !.ret = get_recent_unsorted(last.arg.api, last.arg.arguments)]
    /\ UNCHANGED <<now, token_bucket, circuit_breaker, base, avail_seen, cb_hist>>
    /\ UNCHANGED rlVars

NextTool == CallTool \/ CallRecentUnsorted

SpecTool == InitTool /\ [][NextTool]_vars

\* ------------------ the stand-alone mcp_to_raindrop_create_bookmark
\* A tag: nothing or TagLimit - 1 letters, then up to MaxSuffix characters.
RECURSIVE SeqsUpTo(_, _)
SeqsUpTo(S, n) ==
    IF n = 0 THEN {<< >>}
    ELSE SeqsUpTo(S, n - 1) \cup {Append(q, c) : q \in SeqsUpTo(S, n - 1), c \in S}
TagsDrawn ==
    {prefix \o suffix : prefix \in {<< >>, [i \in 1..(TagLimit - 1) |-> "a"]},
                        suffix \in SeqsUpTo(Characters \ {"a"}, MaxSuffix)}

InitTags ==
    /\ now = 0
    /\ token_bucket = LimiterBucket
    /\ circuit_breaker = NoBreaker
    /\ \E tags \in SeqsUpTo(TagsDrawn, MaxTags) :
          last = [op |-> "arguments",
                  arg |-> [k \in {"url", "tags"} |->
                             IF k = "url" THEN StrV("https://e.com") ELSE ListV(tags)],
                  ret |-> 0, at |-> 0]
    /\ base = [tokens |-> 0, at |-> 0]
    /\ avail_seen = -1
    /\ cb_hist = NoHist
    /\ cb_enabled = FALSE
    /\ InitLimiterIdle

\* mcp_to_raindrop_create_bookmark(arguments) is called.
CreateBookmarkData ==
    /\ last.op = "arguments"
    /\ last' = [last EXCEPT !.op = "mcp_to_raindrop_create_bookmark",
                            !.ret = mcp_to_raindrop_create_bookmark(last.arg)]
    /\ UNCHANGED <<now, token_bucket, circuit_breaker, base, avail_seen, cb_hist>>
    /\ UNCHANGED rlVars

\* The tags returned are fed back in as the tags of a new call.
FeedTagsBack ==
    /\ last.op = "mcp_to_raindrop_create_bookmark"
    /\ "tags" \in DOMAIN last.ret.value
    /\ last' = [last EXCEPT !.op = "fed back",
                            !.arg = [last.arg EXCEPT !["tags"] = ListV(last.ret.value["tags"])],
                            !.ret = mcp_to_raindrop_create_bookmark(
                                      [last.arg EXCEPT
                                         !["tags"] = ListV(last.ret.value["tags"])])]
    /\ UNCHANGED <<now, token_bucket, circuit_breaker, base, avail_seen, cb_hist>>
    /\ UNCHANGED rlVars

NextTags == CreateBookmarkData \/ FeedTagsBack

SpecTags == InitTags /\ [][NextTags]_vars

\* --------------------------------------- the stand-alone PriorityQueue
\* One consumer calls get() again and again, as the loop of _process_queue
\* does, and any caller may put(); no tokens and no breaker are involved.
InitPQ ==
    /\ now = 0
    /\ token_bucket = NoBucket
    /\ circuit_breaker = NoBreaker
    /\ last = NoCall
    /\ base = [tokens |-> 0, at |-> 0]
    /\ avail_seen = -1
    /\ cb_hist = NoHist
    /\ cb_enabled = FALSE
    /\ running = TRUE
    /\ drain = [pc |-> "none", req |-> 0]
    /\ epoch = 1
    /\ requests = << >>
    /\ lanes = [p \in Priority |-> << >>]
    /\ getters = [p \in Priority |-> << >>]
    /\ woken = [p \in Priority |-> << >>]
    /\ got = [p \in Priority |-> 0]
    /\ stats = NoStats
    /\ ledger = NoLedger
    /\ client = NoClient

\* PriorityQueue.put(item, priority): the item joins its lane and
\* asyncio.Queue.put_nowait wakes the lane's first waiting getter.
PQPut(p) ==
    /\ Quiet
    /\ Len(requests) < MaxPuts
    /\ requests' = Append(requests, Call(p, 0, "none", "put"))
    /\ lanes' = [lanes EXCEPT ![p] = Append(@, Len(requests) + 1)]
    /\ IF getters[p] # << >>
          THEN /\ woken' = [woken EXCEPT ![p] = Append(@, Head(getters[p]))]
               /\ getters' = [getters EXCEPT ![p] = Tail(@)]
          ELSE UNCHANGED <<getters, woken>>
    /\ UNCHANGED <<now, token_bucket, circuit_breaker, last, base, avail_seen, cb_hist,
                   cb_enabled, running, drain, epoch, got, stats, ledger>>
    /\ UNCHANGED client

\* The consumer calls PriorityQueue.get().
PQGetCall ==
    /\ drain.pc = "none"
    /\ drain' = [pc |-> "top", req |-> 0]
    /\ UNCHANGED <<now, token_bucket, circuit_breaker, last, base, avail_seen, cb_hist,
                   cb_enabled, running, epoch, requests, lanes, getters, woken, got,
                   stats, ledger>>
    /\ UNCHANGED client

\* PriorityQueue.get() returns (item, priority) to the consumer.
PQReturn ==
    /\ drain.pc = "item"
    /\ last' = [op |-> "get", arg |-> drain.req,
                ret |-> requests[drain.req].priority, at |-> now]
    /\ requests' = [requests EXCEPT ![drain.req].ret = "returned"]
    /\ drain' = [pc |-> "none", req |-> 0]
    /\ UNCHANGED <<now, token_bucket, circuit_breaker, base, avail_seen, cb_hist,
                   cb_enabled, running, epoch, lanes, getters, woken, got, stats,
                   ledger>>
    /\ UNCHANGED client

NextPQ ==
    \/ \E p \in Priority : PQPut(p)
    \/ PQGetCall
    \/ DrainTop
    \/ \E p \in Priority : GetterRun(p)
    \/ DrainWake
    \/ PQReturn

SpecPQ == InitPQ /\ [][NextPQ]_vars

\* ------------------------------------------ claims on the PriorityQueue
\* The items waiting in lane p.
LaneItems(p) == {lanes[p][i] : i \in 1..Len(lanes[p])}

\* C13: a get() called while some lane holds an item returns the oldest item
\* of the highest-priority non-empty lane: normal only when high is empty,
\* low only when high and normal are empty, and each lane first in, first out.
GetTakesOldestOfFirstLane ==
    [][ (DrainTop /\ \E q \in Priority : lanes[q] # << >>) =>
          \E p \in Priority :
              /\ lanes[p] # << >>
              /\ drain'.pc = "item"
              /\ drain'.req \in LaneItems(p)
              /\ requests[drain'.req].priority = p
              /\ \A j \in LaneItems(p) : drain'.req <= j
              /\ p = "normal" => lanes["high"] = << >>
              /\ p = "low" => lanes["high"] = << >> /\ lanes["normal"] = << >>
              /\ lanes' = [lanes EXCEPT ![p] = Tail(@)]
    ]_vars

\* get() returned a high item that was put after a normal and a low item
\* which are still waiting.
HighServedBeforeOlderItems ==
    /\ last.op = "get"
    /\ last.ret = "high"
    /\ \E j \in LaneItems("normal") : j < last.arg
    /\ \E j \in LaneItems("low") : j < last.arg
    /\ getters = [p \in Priority |-> << >>]

\* The rank of a lane: 1 is served first.
LaneRank(p) == CASE p = "high" -> 1 [] p = "normal" -> 2 [] OTHER -> 3

\* C14: a get() that was suspended on empty lanes and finds, when it
\* resumes, that items arrived in more than one lane returns the item of the
\* highest-priority lane among them.
SuspendedGetPrefersPriority ==
    [][ DrainWake =>
          \A p \in Priority :
              got[p] # 0 => LaneRank(requests[drain'.req].priority) <= LaneRank(p)
    ]_vars

\* ---------------------------------------------- claims on the RateLimiter
\* The acquire() calls that have returned true.
Granted == {k \in 1..Len(requests) : requests[k].ret = "true"}

\* C1: the number of acquire() calls that returned true (at once or through the
\* queue) is at most the initial tokens plus the tokens refilled so far, and
\* every grant is backed by one successful consume(1) of its own.
GrantsBackedByTokens ==
    /\ Cardinality(Granted) <= ledger.consumed
    /\ stats.requests_processed <= ledger.consumed
    /\ Cardinality(Granted) * TokenUnit
           <= RequestsPerMinute * TokenUnit + ledger.credited
    /\ token_bucket.tokens
           = RequestsPerMinute * TokenUnit + ledger.credited
               - ledger.consumed * TokenUnit

\* More calls were granted than the bucket held at the start, the last of
\* them through the queue.
GrantedThroughQueue ==
    /\ Cardinality(Granted) > RequestsPerMinute
    /\ \E k \in Granted : requests[k].future = "true"
    /\ ledger.credited > 0

\* C9: acquire() while the breaker is OPEN and the recovery timeout has not
\* elapsed raises at once: no token is consumed, nothing is enqueued, and
\* neither the queued nor the processed counter moves.
OpenBreakerRejectsAcquire ==
    [][\A p \in Priority, t \in 1..MaxTimeout :
          ( /\ Acquire(p, t)
            /\ cb_enabled
            /\ circuit_breaker.state = "OPEN"
            /\ now - circuit_breaker.last_failure_time
                   < circuit_breaker.recovery_timeout ) =>
              /\ requests'[Len(requests')].ret = "raised"
              /\ token_bucket' = token_bucket
              /\ lanes' = lanes
              /\ ledger'.consumed = ledger.consumed
              /\ stats'.requests_queued = stats.requests_queued
              /\ stats'.requests_processed = stats.requests_processed
    ]_vars

\* An acquire() was refused by the OPEN breaker while the bucket still held a
\* token and the drain task was running.
AcquireRaisedWhileOpen ==
    /\ cb_enabled
    /\ circuit_breaker.state = "OPEN"
    /\ running
    /\ token_bucket.tokens >= TokenUnit
    /\ Len(requests) >= 1
    /\ requests[Len(requests)].ret = "raised"
    /\ stats.requests_rejected >= 1

\* The breaker lets a call made now through.
BreakerPermits ==
    cb_enabled =>
        ~ ( /\ circuit_breaker.state = "OPEN"
            /\ now - circuit_breaker.last_failure_time
                   < circuit_breaker.recovery_timeout )

\* C10: from a full bucket of capacity N = requests_per_minute, each of the
\* first N acquire() calls that the breaker permits returns true without
\* suspending or being enqueued, and adds exactly 1 to requests_processed.
FirstCallsGrantedAtOnce ==
    [][\A p \in Priority, t \in 1..MaxTimeout :
          ( /\ Acquire(p, t)
            /\ Len(requests) < RequestsPerMinute
            /\ BreakerPermits ) =>
              /\ requests'[Len(requests')].ret = "true"
              /\ requests'[Len(requests')].future = "none"
              /\ lanes' = lanes
              /\ stats'.requests_queued = stats.requests_queued
              /\ stats'.requests_processed = stats.requests_processed + 1
    ]_vars

\* N calls in a row were granted at once and emptied the bucket.
BucketSpentByFirstCalls ==
    /\ Len(requests) = RequestsPerMinute
    /\ \A k \in 1..Len(requests) : requests[k].ret = "true"
    /\ stats.requests_processed = RequestsPerMinute
    /\ stats.requests_queued = 0
    /\ token_bucket.tokens = 0

\* C12: a queued acquire() whose future is still pending when its timeout has
\* elapsed returns false without raising; requests_rejected grows by exactly 1
\* and requests_processed does not grow for that call, neither at the timeout
\* nor when the drain task dequeues the abandoned entry afterwards.
TimeoutReturnsFalse ==
    [][ /\ \A k \in 1..Len(requests) :
              AcquireTimeout(k) =>
                  /\ requests'[k].ret = "false"
                  /\ stats'.requests_rejected = stats.requests_rejected + 1
                  /\ stats'.requests_processed = stats.requests_processed
                  /\ stats'.requests_queued = stats.requests_queued
                  /\ token_bucket' = token_bucket
        /\ \A k \in 1..Len(requests) :
              (requests[k].future = "cancelled" /\ drain.req = k /\ DrainTokens) =>
                  /\ stats' = stats
                  /\ requests' = requests
        /\ \A k \in 1..Len(requests) :
              requests[k].future = "cancelled" =>
                  /\ requests[k].ret = "false"
                  /\ requests'[k] = requests[k]
    ]_vars

\* A request timed out, was counted as rejected once, and the drain task has
\* since spent a token on its abandoned entry.
TimedOutThenDequeued ==
    \E k \in 1..Len(requests) :
        /\ requests[k].future = "cancelled"
        /\ requests[k].ret = "false"
        /\ drain.pc = "errsleep"
        /\ stats.requests_rejected = 1
        /\ stats.requests_processed = RequestsPerMinute
        /\ ledger.consumed = RequestsPerMinute + 1

\* The drain tasks created by start() that have not ended.
LiveDrainTasks == epoch - ledger.ended

\* C15: under any sequence of start() and stop() calls at most one drain task
\* is live; start() on a running limiter creates no second task; stop() on a
\* stopped or never-started limiter changes nothing and leaves no drain task.
StartStopIdempotent ==
    [][ /\ LiveDrainTasks \in {0, 1}
        /\ running <=> LiveDrainTasks = 1
        /\ running <=> drain.pc # "none"
        /\ (StartUpTo(MaxRestarts) /\ running) =>
              /\ epoch' = epoch
              /\ drain' = drain
              /\ running'
        /\ (StartUpTo(MaxRestarts) /\ ~running) =>
              /\ epoch' = epoch + 1
              /\ running'
        /\ Stop =>
              /\ ~running'
              /\ drain'.pc = "none"
              /\ LiveDrainTasks' = 0
              /\ epoch' = epoch
        /\ (Stop /\ ~running) => ledger' = ledger /\ drain' = drain
    ]_vars

\* The limiter was stopped and started again: the first drain task has ended
\* and the second one is waiting on the empty lanes.
RestartedOnce ==
    /\ epoch = 2
    /\ ledger.ended = 1
    /\ running
    /\ drain.pc = "get"

\* C16: record_failure() adds one to circuit_breaker_trips exactly when that
\* failure moves the breaker from CLOSED or HALF_OPEN to OPEN, and nothing
\* else changes the counter, so it equals the number of transitions into OPEN.
TripsCountTransitions ==
    [][ /\ RecordFailure =>
              ( stats'.circuit_breaker_trips = stats.circuit_breaker_trips + 1
                  <=> ( circuit_breaker.state # "OPEN"
                        /\ circuit_breaker'.state = "OPEN" ) )
        /\ stats'.circuit_breaker_trips # stats.circuit_breaker_trips =>
              /\ RecordFailure
              /\ stats'.circuit_breaker_trips = stats.circuit_breaker_trips + 1
    ]_vars

\* The drain task, or a getter task of its PriorityQueue.get(), is ready to
\* run: the event loop runs it before a whole tick goes by.
DrainDue ==
    \/ drain.pc \in {"start", "top", "item", "errsleep"}
    \/ drain.pc = "sleep" /\ consume(token_bucket, 1, now).ret
    \/ drain.pc = "get" /\ \E p \in Priority : got[p] # 0
    \/ \E p \in Priority : woken[p] # << >>

\* Call k waits for a running limiter, its entry sitting in a lane or in the
\* hands of the drain task; no other call was ever queued, the breaker
\* permits, and the token it needs is refilled before its timeout ends.
WaitsAlone(k) ==
    LET w == time_until_available(token_bucket, 1, now).ret IN
    /\ running
    /\ \/ \E p \in Priority : k \in LaneItems(p) \/ got[p] = k
       \/ drain.req = k
    /\ BreakerPermits
    /\ requests[k].ret = "waiting"
    /\ requests[k].future = "pending"
    /\ \A j \in 1..Len(requests) : j # k => requests[j].future = "none"
    /\ requests[k].deadline * w.den > now * w.den + w.num

\* C11: with no token available acquire() enqueues the request under its
\* priority and adds one to requests_queued; if the limiter is running, the
\* breaker permits, no other caller competes and the timeout is longer than
\* the refill wait, the call stays on its way to the grant (the drain task is
\* not starved, nobody stops the limiter or calls acquire()) until the drain
\* task has consumed the refilled token and resolved it with true.
QueuedCallIsGranted ==
    [][ /\ \A p \in Priority, t \in 1..MaxWait :
              ( /\ Acquire(p, t)
                /\ BreakerPermits
                /\ ~consume(token_bucket, 1, now).ret ) =>
                  /\ lanes' = [lanes EXCEPT ![p] = Append(@, Len(requests) + 1)]
                  /\ stats'.requests_queued = stats.requests_queued + 1
                  /\ requests'[Len(requests')].ret = "waiting"
        /\ \A k \in 1..Len(requests) :
              ( /\ WaitsAlone(k)
                /\ running' = running
                /\ Len(requests') = Len(requests)
                /\ ~(now' # now /\ DrainDue) ) =>
                  \/ WaitsAlone(k)'
                  \/ requests'[k].future = "true"
        /\ \A k \in 1..Len(requests) :
              (requests[k].future = "true" /\ AcquireReturn(k)) =>
                  requests'[k].ret = "true"
    ]_vars

\* ------------------------------------------- claims on the RaindropClient

\* C17: when an HTTP attempt of _make_request fails with a transport or
\* timeout error, the request goes on to another attempt (after a sleep)
\* unless max_retries + 1 attempts were made, and then it raises NetworkError;
\* NetworkError is raised after exactly max_retries + 1 attempts; an attempt
\* answered 200 or 201 ends the request with its data, and no attempt is made
\* outside a request that is on its way to one.
RetriesExhaustThenNetworkError ==
    [][ /\ \A r \in Reply :
              (r.kind = "transport" /\ client.pc = "inflight" /\ ClientReceive(r)) =>
                  IF client.attempts = client.retry_config.max_retries + 1
                     THEN /\ client'.pc = "idle"
                          /\ client'.outcome = "NetworkError"
                          /\ client'.attempts = client.attempts
                     ELSE /\ client'.pc = "backoff"
                          /\ client'.outcome = "none"
                          /\ client'.attempts = client.attempts
        /\ (client.pc = "backoff" /\ client' # client) =>
              /\ client'.pc = "send"
              /\ client'.attempts = client.attempts
        /\ (client.pc = "send" /\ client' # client) =>
              /\ client'.pc = "inflight"
              /\ client'.attempts = client.attempts + 1
        /\ (client'.outcome = "NetworkError" /\ client.outcome # "NetworkError") =>
              client'.attempts = client.retry_config.max_retries + 1
        /\ \A r \in Reply :
              ( /\ r.kind = "response" /\ r.status \in {200, 201}
                /\ client.pc = "inflight" /\ ClientReceive(r) ) =>
                  /\ client'.pc = "idle"
                  /\ client'.outcome = "data"
                  /\ client'.attempts = client.attempts
        /\ (client'.attempts > client.attempts) => client.pc = "send"
        /\ (client.pc = "idle" /\ client'.pc # "idle") => client'.attempts = 0
    ]_vars

GaveUpAfterAllRetries ==
    /\ client.retry_config.max_retries = MaxRetries
    /\ client.outcome = "NetworkError"
    /\ client.attempts = MaxRetries + 1
    /\ Len(client.slept) = MaxRetries

\* k doublings of one.
RECURSIVE Doubled(_)
Doubled(k) == IF k = 0 THEN 1 ELSE 2 * Doubled(k - 1)

NonRetryablePropagates ==
    [][ /\ \A r \in Reply :
              ( /\ r.kind = "response" /\ r.status \in {400, 401, 403}
                /\ client.pc = "inflight" /\ ClientReceive(r) ) =>
                  /\ client'.pc = "idle"
                  /\ client'.outcome =
                        CASE r.status = 400 -> "ValidationError"
                          [] r.status = 403 -> "PermissionError"
                          [] r.message = "plain" -> "AuthenticationError"
                          [] r.message = "token" -> "InvalidTokenError"
                          [] OTHER -> "TokenExpiredError"
                  /\ client'.attempts = client.attempts
                  /\ client'.slept = client.slept
                  /\ client.attempt = 0 =>
                        client'.attempts = 1 /\ client'.slept = << >>
        /\ client.pc = "idle" =>
              /\ client'.sent = client.sent
              /\ client'.attempts \in {client.attempts, 0}
              /\ client'.slept \in {client.slept, << >>}
    ]_vars

RefusedAtFirstAttempt ==
    /\ client.pc = "idle"
    /\ client.outcome \in {"ValidationError", "AuthenticationError", "PermissionError"}
    /\ client.attempts = 1
    /\ client.slept = << >>
    /\ client.retry_config.max_retries > 0

\* C20: an attempt answered with a status of 500 or more, made while retries
\* remain, is followed by a backoff sleep and another attempt: no error
\* surfaces to the caller before max_retries retries were made.
ServerErrorIsRetried ==
    [][ \A r \in Reply :
          ( /\ r.kind = "response" /\ r.status >= 500
            /\ client.pc = "inflight" /\ ClientReceive(r)
            /\ client.attempt < client.retry_config.max_retries ) =>
              /\ client'.pc = "backoff"
              /\ client'.outcome = "none"
              /\ client'.slept = Append(client.slept,
                                        get_delay(client.retry_config, client.attempt))
    ]_vars

\* C21: the end of every HTTP attempt records exactly one outcome in the
\* circuit breaker: record_success() for a success response, record_failure()
\* for a transport failure and for an error status.
AttemptRecordsOneOutcome ==
    [][ \A r \in Reply :
          (client.pc = "inflight" /\ ClientReceive(r)) =>
              /\ client'.recorded = client.recorded + 1
              /\ IF AttemptResult(r) = "data" THEN RecordSuccess ELSE RecordFailure
    ]_vars

\* C22: _handle_response maps the status to one fixed outcome: 200/201 the
\* data, 400 ValidationError, 401 AuthenticationError or a token
\* specialization, 403 PermissionError, 404 NotFoundError, 429 RateLimitError
\* with the seconds of the Retry-After header when there is one, 500 and above
\* ServerError with the status, anything else RaindropError with the status.
StatusMapsToFixedOutcome ==
    last.op = "_handle_response" =>
        LET st == last.arg.status
            ret == last.ret
        IN  CASE st \in {200, 201} -> ret.outcome = "data"
              [] st = 400 -> ret.outcome = "ValidationError"
              [] st = 401 -> ret.outcome \in {"AuthenticationError", "InvalidTokenError",
                                              "TokenExpiredError"}
              [] st = 403 -> ret.outcome = "PermissionError"
              [] st = 404 -> ret.outcome = "NotFoundError"
              [] st = 429 -> /\ ret.outcome = "RateLimitError"
                             /\ last.arg.retry_after = "absent" => ret.retry_after = None
                             /\ last.arg.retry_after = "0" => ret.retry_after = 0
                             /\ last.arg.retry_after = "30" => ret.retry_after = 30
              [] st >= 500 -> ret.outcome = "ServerError" /\ ret.status_code = st
              [] OTHER -> ret.outcome = "RaindropError" /\ ret.status_code = st

\* ------------------------------------ claims on the tool-call boundary

\* The tags list of the data a create_bookmark conversion returned.
TagsOf(data) == IF "tags" \in DOMAIN data THEN data["tags"] ELSE << >>

\* Where text first stands in a list.
FirstAt(items, text) == CHOOSE i \in 1..Len(items) :
                            items[i] = text /\ \A j \in 1..(i - 1) : items[j] # text

\* C25: mcp_to_raindrop_create_bookmark returns the input URL as link and as
\* tags the sanitized input tags, empty ones dropped, each once, in the order
\* of their first occurrence; the tags it returned, fed back in, come out the
\* same.
TagsSanitizedAndStable ==
    LET given == last.arg["tags"].v
        clean == [i \in 1..Len(given) |-> sanitize_tag(given[i])]
        out == TagsOf(last.ret.value)
    IN  /\ last.op = "mcp_to_raindrop_create_bookmark" =>
              /\ last.ret.raises = NoExc
              /\ last.ret.value["link"] = last.arg["url"].v
              /\ {out[i] : i \in 1..Len(out)} = {clean[i] : i \in 1..Len(clean)} \ {<< >>}
              /\ \A i, j \in 1..Len(out) :
                    i < j => out[i] # out[j] /\ FirstAt(clean, out[i]) < FirstAt(clean, out[j])
        /\ last.op = "fed back" => last.ret.raises = NoExc /\ out = given

\* The error codes format_error_response knows.
ErrorCodes == {"INVALID_INPUT", "MISSING_FIELD", "PERMISSION_DENIED",
               "RATE_LIMIT_EXCEEDED", "NOT_FOUND", "UNAUTHORIZED", "INTERNAL_ERROR"}

\* The envelope is one of a call that went well.
IsSuccessEnvelope(envelope) ==
    /\ {"success", "data"} \subseteq DOMAIN envelope
    /\ "error" \notin DOMAIN envelope
    /\ envelope["success"] = TRUE

\* The envelope is {error: {code, message, context}}.
IsErrorEnvelope(envelope) ==
    /\ DOMAIN envelope = {"error"}
    /\ DOMAIN envelope["error"] = {"code", "message", "context"}
    /\ envelope["error"]["code"] \in ErrorCodes

\* C23: whatever the tool name, the arguments, the client (there or not) and
\* the exception the client raised, _call_tool raises nothing and returns
\* exactly one text content holding a success envelope or an error envelope;
\* an unknown tool, arguments that fail validation, a missing client and an
\* exception out of the handler all give the error envelope.
CallToolAlwaysAnswers ==
    last.op = "_call_tool" =>
        LET call == last.arg
            content == last.ret.content
        IN  /\ last.ret.raises = NoExc
            /\ Len(content) = 1
            /\ content[1].type = "text"
            /\ IsSuccessEnvelope(loads(content[1].text))
                  \/ IsErrorEnvelope(loads(content[1].text))
            /\ ( \/ call.name = "invalid_tool"
                 \/ ~call.has_client
                 \/ validate_mcp_tool_args(call.name, call.arguments).raises # NoExc
                 \/ call.api # NoExc /\ call.name # "list_collections" ) =>
                   IsErrorEnvelope(loads(content[1].text))

ClientErrorEnveloped ==
    /\ last.op = "_call_tool"
    /\ last.arg.name = "get_bookmark"
    /\ last.arg.has_client
    /\ last.arg.api = Exc("NetworkError", <<"Request", "failed", "after", "retries">>)
    /\ Len(last.ret.content) = 1
    /\ loads(last.ret.content[1].text)["error"]["code"] = "INTERNAL_ERROR"

\* The error of the core reaches the tool-call boundary: the arguments were
\* valid, the handler called the client and let its exception through.
ReachesBoundary(call) ==
    /\ call.api # NoExc
    /\ call.has_client
    /\ validate_mcp_tool_args(call.name, call.arguments).raises = NoExc
    /\ Handle(call.name, call.arguments, call.api).raises = call.api

\* C24: a typed error of the core that reaches the tool-call boundary is
\* reported under the code of its type: RateLimitError as RATE_LIMIT_EXCEEDED,
\* PermissionError as PERMISSION_DENIED, NotFoundError as NOT_FOUND, an
\* AuthenticationError as UNAUTHORIZED, and none of them as INTERNAL_ERROR.
TypedErrorsKeepTheirCode ==
    (last.op = "_call_tool" /\ ReachesBoundary(last.arg)) =>
        LET error == last.arg.api
            code == loads(last.ret.content[1].text)["error"]["code"]
        IN  /\ error.type = "RateLimitError" => code = "RATE_LIMIT_EXCEEDED"
            /\ error.type = "PermissionError" => code = "PERMISSION_DENIED"
            /\ error.type = "NotFoundError" => code = "NOT_FOUND"
            /\ isinstance(error, "AuthenticationError") => code = "UNAUTHORIZED"

\* C26: get_recent_unsorted with no limit or an integer limit in 1..50 calls
\* client.search_bookmarks exactly once, with collection -1, sort "-created",
\* page 0 and perpage = limit (50 by default), and returns a success
\* envelope; validate_collection_id accepts -1, -99, None and the positive
\* integers.
RecentUnsortedSearchesOnce ==
    ( /\ last.op = "get_recent_unsorted"
      /\ last.arg.api = NoExc
      /\ "limit" \in DOMAIN last.arg.arguments =>
             /\ last.arg.arguments["limit"].t = "int"
             /\ last.arg.arguments["limit"].v \in 1..50 ) =>
           LET limit == get(last.arg.arguments, "limit", IntV(50)) IN
           /\ validate_collection_id(IntV(-1)) /\ validate_collection_id(IntV(-99))
           /\ validate_collection_id(NoneV) /\ validate_collection_id(IntV(1))
           /\ last.ret.raises = NoExc
           /\ Len(last.ret.calls) = 1
           /\ DOMAIN last.ret.calls[1] = {"collection", "sort", "page", "perpage"}
           /\ last.ret.calls[1]["collection"] = IntV(-1)
           /\ last.ret.calls[1]["sort"] = StrV("-created")
           /\ last.ret.calls[1]["page"] = IntV(0)
           /\ last.ret.calls[1]["perpage"] = limit
           /\ IsSuccessEnvelope(last.ret.value)

\* ------------------------------------ further claims on the RateLimiter

\* C27: when the drain task has a token for a dequeued request whose
\* acquire() timed out before, writing the grant to its future is ignored:
\* the iteration ends as any other, at the top of the loop, not in the error
\* path with its pause of one second.
AbandonedGrantIsIgnored ==
    [][ ( /\ DrainTokens
          /\ running
          /\ drain.req # 0
          /\ requests[drain.req].ret = "false"
          /\ requests[drain.req].future = "cancelled"
          /\ consume(token_bucket, 1, now).ret ) =>
            /\ drain'.pc = "top"
            /\ requests' = requests
    ]_vars

\* The number of places that hold item k of the PriorityQueue: a lane, the
\* result of a finished getter task, the get() call about to return it, or
\* the caller it was returned to.
Holders(k) ==
    Cardinality({p \in Priority : \E i \in 1..Len(lanes[p]) : lanes[p][i] = k})
    + Cardinality({p \in Priority : got[p] = k})
    + (IF drain.req = k THEN 1 ELSE 0)
    + (IF requests[k].ret = "returned" THEN 1 ELSE 0)

\* C28: PriorityQueue loses and duplicates nothing: every item that was put
\* is at any time in exactly one place on its way to exactly one get(), also
\* when items arrive in two or three lanes while a get() is suspended on
\* all-empty lanes.
NothingLostNothingDuplicated ==
    \A k \in 1..Len(requests) : Holders(k) = 1

\* The acquire() calls counted as processed: granted at once, or given true
\* by the drain task.
CountedProcessed ==
    {k \in 1..Len(requests) :
        \/ requests[k].ret = "true"
        \/ requests[k].ret = "waiting" /\ requests[k].future = "true"}

\* The acquire() calls counted as rejected: refused by the breaker, timed
\* out, or given false by the drain task.
CountedRejected ==
    {k \in 1..Len(requests) :
        \/ requests[k].ret \in {"false", "raised"}
        \/ requests[k].ret = "waiting" /\ requests[k].future = "false"}

\* C29: requests_processed, requests_rejected and requests_queued never
\* decrease, and every acquire() call that completes is counted exactly once in
\* requests_processed + requests_rejected, never in both and never twice, also
\* when it timed out and the drain task dequeues it afterwards.
CountedExactlyOnce ==
    /\ [](/\ stats.requests_processed = Cardinality(CountedProcessed)
          /\ stats.requests_rejected = Cardinality(CountedRejected)
          /\ CountedProcessed \cap CountedRejected = {})
    /\ [][ /\ stats'.requests_processed >= stats.requests_processed
           /\ stats'.requests_rejected >= stats.requests_rejected
           /\ stats'.requests_queued >= stats.requests_queued
         ]_vars

\* Every acquire() call has completed, one of them by its timeout, and the
\* drain task has since taken the abandoned entry off the queue and spent a
\* token on it.
AbandonedEntryCountedOnce ==
    /\ Len(requests) = MaxAcquires
    /\ \A k \in 1..Len(requests) : requests[k].ret \in {"true", "false", "raised"}
    /\ \E k \in 1..Len(requests) :
          /\ requests[k].future = "cancelled"
          /\ \A p \in Priority : \A i \in 1..Len(lanes[p]) : lanes[p][i] # k
    /\ drain.pc = "errsleep"
    /\ stats.requests_processed + stats.requests_rejected = MaxAcquires

\* Request k waits for a token: it sits in a lane, or the drain task has taken
\* it off the queue and has not resolved it yet.
AwaitsToken(k) ==
    /\ requests[k].ret = "waiting"
    /\ requests[k].future = "pending"
    /\ \/ \E p \in Priority : \E i \in 1..Len(lanes[p]) : lanes[p][i] = k
       \/ \E p \in Priority : got[p] = k
       \/ drain.req = k

\* C30: a newly arriving acquire() never overtakes a request that already
\* waits: while a request of a started limiter sits in the priority queue or
\* is held by the drain task waiting for a token, no later acquire() is
\* granted a token at once.
NoOvertakingByLaterCall ==
    [][ \A p \in Priority, t \in 1..MaxTimeout :
          ( /\ running
            /\ \E k \in 1..Len(requests) : AwaitsToken(k)
            /\ AcquireUpTo(MaxArrivals, p, t) ) =>
                requests'[Len(requests) + 1].ret # "true"
    ]_vars

\* ------------------------------------- further claims on the RaindropClient
\* C31: every HTTP attempt issued by _make_request, retries included, is
\* preceded by a granted acquire() of its own: the number of HTTP attempts
\* issued is at most the number of tokens consumed from the bucket.
EveryAttemptHasItsToken ==
    client.sent <= ledger.consumed

\* ---------------------------------- further claims on the drain task
\* C32: stop() leaves no waiter behind on the priority lanes: after stop()
\* cancelled a drain task suspended in PriorityQueue.get() and start() was
\* called again, a request enqueued afterwards is never taken off its lane by
\* a getter of the old task.
NoLeftoverGetterTakes ==
    [][ \A p \in Priority :
          ( /\ running
            /\ woken[p] # << >>
            /\ Head(woken[p]) = "old"
            /\ GetterRun(p) ) =>
                /\ lanes' = lanes
                /\ ledger'.lost = ledger.lost
    ]_vars

\* ------------------------------------ further claims on the CircuitBreaker
\* C33: while the breaker is OPEN, record_failure() and record_success()
\* change neither its state nor the moment it recovers: the failure that
\* opened it stays the one recovery_timeout is counted from.
OpenIgnoresOutcomes ==
    [][ (circuit_breaker.state = "OPEN" /\ (CBRecordFailure \/ CBRecordSuccess)) =>
            /\ circuit_breaker'.state = "OPEN"
            /\ circuit_breaker'.last_failure_time = circuit_breaker.last_failure_time
    ]_vars

\* C34 as stated: can_execute() is a query, and no call of it changes state,
\* failure_count, success_count or last_failure_time.
CanExecuteIsAQuery ==
    [][ CBCanExecute =>
            /\ circuit_breaker'.state = circuit_breaker.state
            /\ circuit_breaker'.failure_count = circuit_breaker.failure_count
            /\ circuit_breaker'.success_count = circuit_breaker.success_count
            /\ circuit_breaker'.last_failure_time = circuit_breaker.last_failure_time
    ]_vars

\* C34, amended: can_execute() never changes failure_count, last_failure_time
\* or the configured thresholds, and it changes state and success_count in one
\* case only: called on an OPEN breaker whose recovery_timeout has elapsed, it
\* sets state to HALF_OPEN and success_count to 0.
CanExecuteMutatesOnlyOnRecovery ==
    [][ CBCanExecute =>
            /\ circuit_breaker'.failure_count = circuit_breaker.failure_count
            /\ circuit_breaker'.last_failure_time = circuit_breaker.last_failure_time
            /\ circuit_breaker'.failure_threshold = circuit_breaker.failure_threshold
            /\ circuit_breaker'.recovery_timeout = circuit_breaker.recovery_timeout
            /\ circuit_breaker'.success_threshold = circuit_breaker.success_threshold
            /\ IF /\ circuit_breaker.state = "OPEN"
                  /\ now - circuit_breaker.last_failure_time
                         >= circuit_breaker.recovery_timeout
                 THEN /\ circuit_breaker'.state = "HALF_OPEN"
                      /\ circuit_breaker'.success_count = 0
                 ELSE circuit_breaker' = circuit_breaker
    ]_vars

\* A can_execute() call made some time after the recovery timeout had elapsed
\* has just changed the breaker from OPEN to HALF_OPEN, its failures kept.
QueryMovedBreakerToHalfOpen ==
    /\ last.op = "can_execute"
    /\ last.at = now
    /\ last.ret = TRUE
    /\ circuit_breaker.state = "HALF_OPEN"
    /\ circuit_breaker.success_count = 0
    /\ circuit_breaker.failure_count > circuit_breaker.failure_threshold
    /\ now > circuit_breaker.last_failure_time + circuit_breaker.recovery_timeout

\* C35: the future of a queued request is resolved at most once, and only by
\* the drain task that holds the request; a caller that was answered false at
\* its timeout, also one whose request was abandoned at stop(), never sees a
\* grant, and a waiting caller returns true only from a future resolved true.
FutureResolvedAtMostOnce ==
    [][ \A k \in 1..Len(requests) :
          /\ requests[k].future \in {"true", "false", "cancelled"} =>
                requests'[k].future = requests[k].future
          /\ (requests[k].future = "pending" /\ requests'[k].future \in {"true", "false"}) =>
                /\ DrainTokens
                /\ drain.req = k
          /\ requests[k].ret \in {"true", "false", "raised"} =>
                requests'[k].ret = requests[k].ret
          /\ (requests[k].ret = "waiting" /\ requests'[k].ret = "true") =>
                requests[k].future = "true"
    ]_vars

\* The drain task was cancelled by stop() while it held a request; the request
\* was given up at its timeout and its caller was answered false.
AbandonedAtStopAnsweredFalse ==
    \E k \in ledger.lost :
        /\ ~running
        /\ requests[k].ret = "false"
        /\ requests[k].future = "cancelled"

\* C36: the drain task resolves a dequeued request only after it has consumed
\* one token while the limiter is running; having consumed it, it resolves
\* the future with false and adds one to requests_rejected if the breaker
\* cannot execute, otherwise resolves it with true and adds one to
\* requests_processed; stop() ends the task without resolving the future.
DrainResolvesAfterToken ==
    [][ /\ \A k \in 1..Len(requests) :
              requests'[k].future \in {"true", "false"} \ {requests[k].future} =>
                  /\ DrainTokens
                  /\ drain.req = k
                  /\ running
                  /\ consume(token_bucket, 1, now).ret
                  /\ ledger'.consumed = ledger.consumed + 1
        /\ ( /\ DrainTokens
             /\ running
             /\ drain.req # 0
             /\ consume(token_bucket, 1, now).ret ) =>
                IF BreakerCheck.ret
                  THEN /\ requests'[drain.req].future = "true"
                       /\ stats'.requests_processed = stats.requests_processed + 1
                       /\ stats'.requests_rejected = stats.requests_rejected
                  ELSE /\ requests'[drain.req].future = "false"
                       /\ stats'.requests_rejected = stats.requests_rejected + 1
                       /\ stats'.requests_processed = stats.requests_processed
        /\ (running /\ ~running') =>
                /\ drain'.pc = "none"
                /\ \A k \in 1..Len(requests) :
                      requests'[k].future = requests[k].future
    ]_vars

\* C37: the drain loop never exits on an unexpected error inside one
\* iteration: the step that fails leaves the task alive in its pause, from
\* the pause it goes back to the top of the loop and on to the queue, and the
\* task ends only when stop() has cleared the running flag and cancelled it.
DrainSurvivesErrors ==
    [][ /\ ( /\ DrainTokens
             /\ running
             /\ consume(token_bucket, 1, now).ret
             /\ requests[drain.req].future # "pending" ) =>
                /\ drain'.pc = "errsleep"
                /\ ledger'.ended = ledger.ended
        /\ (drain.pc = "errsleep" /\ drain'.pc # "errsleep") =>
                \/ DrainTop /\ running /\ drain'.pc \in {"item", "get"}
                \/ ~running' /\ drain'.pc = "none"
        /\ (drain.pc # "none" /\ drain'.pc = "none") =>
                /\ ~running'
                /\ ledger'.ended = ledger.ended + 1
    ]_vars

\* After an iteration that failed on the abandoned request j, the drain task
\* took the next queued request k and granted it.
DrainWentOnAfterError ==
    /\ running
    /\ drain.pc # "none"
    /\ \E j, k \in 1..Len(requests) :
          /\ j < k
          /\ requests[j].future = "cancelled"
          /\ \A p \in Priority : \A i \in 1..Len(lanes[p]) : lanes[p][i] # j
          /\ requests[k].future = "true"
    /\ ledger.consumed = stats.requests_processed + 1

\* C38: a CircuitBreaker with failure_threshold >= 1 that is driven through
\* can_execute, record_success and record_failure from its initial state has
\* failure_count < failure_threshold in every state in which it is CLOSED.
ClosedBelowThreshold ==
    ( /\ circuit_breaker.failure_threshold >= 1
      /\ circuit_breaker.state = "CLOSED" ) =>
          circuit_breaker.failure_count < circuit_breaker.failure_threshold

\* The breaker tripped, recovered through HALF_OPEN, closed again, and has
\* since recorded a failure that leaves it one short of the threshold.
ClosedAgainOneShort ==
    /\ circuit_breaker.state = "CLOSED"
    /\ cb_hist.succs >= circuit_breaker.success_threshold
    /\ last.op = "record_failure"
    /\ circuit_breaker.failure_count = circuit_breaker.failure_threshold - 1
    /\ circuit_breaker.failure_count > 0

\* ------------------------------------------ the life cycle of the client
\* C39: _make_request on a client that is not initialized or is closed raises
\* RaindropError before a token is acquired or an HTTP request is issued;
\* close() stops the rate limiter and closes the session and the connector,
\* and a second close() does nothing; initialize() after close() raises
\* RaindropError and starts nothing.
LifecycleGuard ==
    [][ /\ (ClientRequest /\ (client.closed \/ ~client.session)) =>
              /\ client'.outcome = "RaindropError"
              /\ client'.pc = "idle"
              /\ client'.sent = client.sent
              /\ token_bucket' = token_bucket
              /\ requests' = requests
              /\ stats' = stats
              /\ ledger' = ledger
        /\ (ClientClose /\ ~client.closed) =>
              /\ client'.closed
              /\ ~running'
              /\ drain'.pc = "none"
              /\ client'.connector_closed
              /\ client.session => client'.session_closed
        /\ (ClientClose /\ client.closed) => UNCHANGED vars
        /\ (ClientInitialize /\ client.closed) =>
              /\ client'.initialized = "RaindropError"
              /\ client'.session = client.session
              /\ client'.closed
              /\ running' = running
              /\ epoch' = epoch
    ]_vars

\* A client that has issued HTTP requests was closed; afterwards initialize()
\* raised and so did a further _make_request, with nothing sent or acquired.
ClosedClientRefusedBoth ==
    /\ client.closed
    /\ client.session_closed
    /\ client.connector_closed
    /\ ~running
    /\ client.initialized = "RaindropError"
    /\ client.outcome = "RaindropError"
    /\ client.pc = "idle"
    /\ client.sent > 0
    /\ client.calls > Len(requests)

====
